---- MODULE Spec2Model ----
(***************************************************************************)
(* Model of the trade execution service (services/trader/main.py):         *)
(* RiskManager, PaperTrader, OKXTrader and Trader.execute_signal with the  *)
(* orders and positions tables it writes; and of the model executor        *)
(* (services/executor/main.py): signal emission with its rate limiter.     *)
(*                                                                         *)
(* Python floats are modelled as exact rationals [n, d] in lowest terms;   *)
(* binary rounding of float arithmetic is outside the model.               *)
(* An optional value (Python None / SQL NULL) is the empty sequence and a  *)
(* present value x is the one-element sequence <<x>>.                      *)
(***************************************************************************)
EXTENDS Integers, Sequences, FiniteSets, TLC

VARIABLES
    mode,                \* Trader.mode
    trader_config,       \* Trader.trader_config (read once at construction)
    daily_pnl,           \* RiskManager.daily_pnl
    consecutive_losses,  \* RiskManager.consecutive_losses
    orders,              \* rows of table orders, in insertion order
    positions,           \* rows of table positions, row id = index
    pnl_log,             \* arguments of update_pnl since the last reset_daily
    check_result,        \* (allowed, reason) returned by check_risk_limits in the last call, with its order
    log,                 \* messages logged while handling the last call
    clock,               \* datetime.utcnow(), in seconds
    max_signals_per_minute, \* ModelExecutor.max_signals_per_minute
    last_signal_time,    \* ModelExecutor.last_signal_time
    signal_count,        \* ModelExecutor.signal_count
    model,               \* ModelExecutor.model
    emitted,             \* number of emit_signal calls so far
    dropped,             \* the emit_signal calls that returned at the rate limit
    signals,             \* entries of stream:signals, oldest first
    service,             \* which service's main() this process runs
    pc,                  \* where main() of the service is
    exit_path,           \* why main() left init()/run(), "none" while it has not
    sleep_seconds,       \* length of the asyncio.sleep the loop is in or was last in
    failure,             \* the error caught in the current loop iteration
    batch,               \* stream positions returned by the last read
    batch_pos,           \* position in batch of the message the for loop is at
    processed,           \* stream positions of the messages execute_signal or process_candle has completed
    db_pool,             \* Database.pool
    redis_client,        \* RedisStreams.client
    http_client,         \* OKXTrader.http_client
    candles,             \* entries of stream:candles, oldest first
    active_model,        \* the latest row of table models with status 'active'
    frame,               \* the feature frame handed to the signal generators
    online_signal,       \* what SignalGenerator._ema_rsi_signal returned for it
    offline_signals,     \* what EMARSIStrategy.generate_signals returned for it
    signal_strength,     \* what _calculate_signal_strength returned, with its signal_value
    closes,              \* Backtester.backtest: the close column of df, bar by bar
    signals_in,          \* ... and the signal series, bar by bar
    capital,             \* ... its capital
    bt_position,         \* ... its position, the number of coins held
    trades,              \* ... its list of entry and exit trades
    metrics,             \* ... the PerformanceMetrics it returned, None before
    returns,             \* the list _calculate_sharpe was called with, None before
    sharpe_ratio,        \* ... and what it returned
    candidates,          \* generate_models: the metrics of the strategies tested
    models,              \* ... and the rows it created in the models table
    candle_closes,       \* the close column of the candles the indicators are computed on
    indicators,          \* the indicator columns, None before they are computed
    features             \* FeatureCalculator.calculate_features of the frame

traderVars == <<mode, trader_config, daily_pnl, consecutive_losses, orders,
                positions, pnl_log, check_result>>
emitVars == <<clock, max_signals_per_minute, last_signal_time, signal_count,
              model, emitted, dropped, signals>>

handles == <<db_pool, redis_client, http_client>>
loopVars == <<sleep_seconds, failure, batch, batch_pos, processed>>
serviceVars == <<service, pc, exit_path, loopVars, handles, candles, active_model>>

generatorVars == <<frame, online_signal, offline_signals, signal_strength>>
backtestVars == <<closes, signals_in, capital, bt_position, trades, metrics>>
sharpeVars == <<returns, sharpe_ratio>>
generationVars == <<candidates, models>>
featureVars == <<candle_closes, indicators, features>>
modelgenVars == <<backtestVars, sharpeVars, generationVars, featureVars>>
strategyVars == <<generatorVars, modelgenVars>>

vars == <<traderVars, log, emitVars, serviceVars, strategyVars>>

----------------------------------------------------------------------------
(* Bounds of the model *)

MaxOrders == 3
MaxUpdates == 3
MaxEmits == 6
MaxStream == 2
MaxCandleSignals == 2
MaxBacklog == 11

----------------------------------------------------------------------------
(* Optional values *)

None == <<>>
Some(x) == <<x>>

----------------------------------------------------------------------------
(* Float arithmetic, as exact rationals *)

Abs(a) == IF a < 0 THEN -a ELSE a

RECURSIVE GCD(_, _)
GCD(a, b) == IF b = 0 THEN a ELSE GCD(b, a % b)

Rat(n, d) ==
    LET s == IF d < 0 THEN -1 ELSE 1
        g == GCD(Abs(n), Abs(d))
    IN [n |-> (s * n) \div g, d |-> (s * d) \div g]

FromInt(i) == [n |-> i, d |-> 1]
Zero == FromInt(0)
One == FromInt(1)
RAdd(x, y) == Rat(x.n * y.d + y.n * x.d, x.d * y.d)
RSub(x, y) == Rat(x.n * y.d - y.n * x.d, x.d * y.d)
RMul(x, y) == Rat(x.n * y.n, x.d * y.d)
RDiv(x, y) == Rat(x.n * y.d, x.d * y.n)
RNeg(x) == [n |-> -x.n, d |-> x.d]
RLt(x, y) == x.n * y.d < y.n * x.d
RGt(x, y) == RLt(y, x)
RGe(x, y) == ~RLt(x, y)
RLe(x, y) == ~RLt(y, x)

----------------------------------------------------------------------------
(* Enumerations of common/models.py *)

OrderSide == [BUY |-> "buy", SELL |-> "sell"]
OrderType == [MARKET |-> "market", LIMIT |-> "limit"]
OrderStatus == [PENDING |-> "pending", PARTIALLY_FILLED |-> "partially_filled",
                FILLED |-> "filled", CANCELLED |-> "cancelled",
                REJECTED |-> "rejected"]
TradingMode == [PAPER |-> "paper", SHADOW |-> "shadow", LIVE |-> "live"]
SignalType == [BUY |-> "BUY", SELL |-> "SELL", HOLD |-> "HOLD"]

----------------------------------------------------------------------------
(* Configuration *)

Symbol == "BTC-USDT"

DefaultConfig ==
    [max_position_size_usdt |-> FromInt(1000),
     max_daily_loss_usdt |-> FromInt(200),
     max_consecutive_losses |-> 3,
     position_size_usdt |-> FromInt(100),
     fee_pct |-> Rat(1, 1000),
     slippage_pct |-> Rat(1, 1000)]

\* the configurations the model is run with: the defaults, a tight one whose
\* position limit equals the position size, one that locks out after a
\* single loss, and one whose position size exceeds the position limit
Configs ==
    { DefaultConfig,
      [DefaultConfig EXCEPT !.max_position_size_usdt = FromInt(100),
                            !.max_daily_loss_usdt = FromInt(40),
                            !.max_consecutive_losses = 2],
      [DefaultConfig EXCEPT !.max_consecutive_losses = 1],
      [DefaultConfig EXCEPT !.max_position_size_usdt = FromInt(50),
                            !.max_daily_loss_usdt = FromInt(40),
                            !.max_consecutive_losses = 1] }

\* a configuration that tolerates no loss at all
NoLossConfig == [DefaultConfig EXCEPT !.max_consecutive_losses = 0]

Modes == {TradingMode.PAPER, TradingMode.SHADOW, TradingMode.LIVE}

max_position_size == trader_config.max_position_size_usdt
max_daily_loss == trader_config.max_daily_loss_usdt
max_consecutive_losses == trader_config.max_consecutive_losses
position_size == trader_config.position_size_usdt
fee_pct == trader_config.fee_pct
slippage_pct == trader_config.slippage_pct

----------------------------------------------------------------------------
(* Inputs *)

ModelIds == {1, 2}
SignalPrices == {0, 100, 200}
SignalTypes == {SignalType.BUY, SignalType.SELL, SignalType.HOLD}
Signals == [signal_type : SignalTypes, price : SignalPrices, model_id : ModelIds]

Order(model_id, side, quantity, price) ==
    [model_id |-> model_id, symbol |-> Symbol, side |-> side,
     order_type |-> OrderType.MARKET, quantity |-> quantity,
     price |-> price, mode |-> mode]

\* orders handed to check_risk_limits and pnl values handed to update_pnl
\* when the RiskManager is exercised on its own
CheckQuantities == {Rat(1, 2), One, FromInt(20)}
CheckPrices == {FromInt(100), FromInt(200)}
PnlValues == {FromInt(-100), Rat(-1, 5), Zero, FromInt(50)}

----------------------------------------------------------------------------
(* RiskManager *)

\* check_risk_limits with the consecutive-loss test ahead of the daily-loss test
CheckRiskLimitsStreakFirst(order) ==
    LET order_value == RMul(order.quantity, order.price)
    IN IF RGt(order_value, max_position_size)
       THEN [allowed |-> FALSE, reason |-> "Order size exceeds max"]
       ELSE IF consecutive_losses >= max_consecutive_losses
       THEN [allowed |-> FALSE, reason |-> "Consecutive losses exceeds limit"]
       ELSE IF RLt(daily_pnl, RNeg(max_daily_loss))
       THEN [allowed |-> FALSE, reason |-> "Daily loss exceeds limit"]
       ELSE [allowed |-> TRUE, reason |-> ""]

\* check_risk_limits that denies only once the streak is above the limit
CheckRiskLimitsStreakAbove(order) ==
    LET order_value == RMul(order.quantity, order.price)
    IN IF RGt(order_value, max_position_size)
       THEN [allowed |-> FALSE, reason |-> "Order size exceeds max"]
       ELSE IF RLt(daily_pnl, RNeg(max_daily_loss))
       THEN [allowed |-> FALSE, reason |-> "Daily loss exceeds limit"]
       ELSE IF consecutive_losses > max_consecutive_losses
       THEN [allowed |-> FALSE, reason |-> "Consecutive losses exceeds limit"]
       ELSE [allowed |-> TRUE, reason |-> ""]

\* check_risk_limits that applies the loss limits to BUY orders only
CheckRiskLimitsSellExempt(order) ==
    LET order_value == RMul(order.quantity, order.price)
    IN IF RGt(order_value, max_position_size)
       THEN [allowed |-> FALSE, reason |-> "Order size exceeds max"]
       ELSE IF order.side = OrderSide.SELL
       THEN [allowed |-> TRUE, reason |-> ""]
       ELSE IF RLt(daily_pnl, RNeg(max_daily_loss))
       THEN [allowed |-> FALSE, reason |-> "Daily loss exceeds limit"]
       ELSE IF consecutive_losses >= max_consecutive_losses
       THEN [allowed |-> FALSE, reason |-> "Consecutive losses exceeds limit"]
       ELSE [allowed |-> TRUE, reason |-> ""]

CheckRiskLimits(order) ==
    LET order_value == RMul(order.quantity, order.price)
    IN IF RGt(order_value, max_position_size)
       THEN [allowed |-> FALSE, reason |-> "Order size exceeds max"]
       ELSE IF RLt(daily_pnl, RNeg(max_daily_loss))
       THEN [allowed |-> FALSE, reason |-> "Daily loss exceeds limit"]
       ELSE IF consecutive_losses >= max_consecutive_losses
       THEN [allowed |-> FALSE, reason |-> "Consecutive losses exceeds limit"]
       ELSE [allowed |-> TRUE, reason |-> ""]

\* update_pnl that resets the loss streak only on a strictly positive pnl
UpdatePnlResetOnGainOnly(pnl) ==
    /\ daily_pnl' = RAdd(daily_pnl, pnl)
    /\ consecutive_losses' = IF RGt(pnl, Zero) THEN 0
                              ELSE IF RLt(pnl, Zero) THEN consecutive_losses + 1
                              ELSE consecutive_losses
    /\ pnl_log' = Append(pnl_log, pnl)

\* update_pnl that counts a break-even close as a loss
UpdatePnlZeroIsLoss(pnl) ==
    /\ daily_pnl' = RAdd(daily_pnl, pnl)
    /\ consecutive_losses' = IF RLe(pnl, Zero) THEN consecutive_losses + 1 ELSE 0
    /\ pnl_log' = Append(pnl_log, pnl)

UpdatePnl(pnl) ==
    /\ daily_pnl' = RAdd(daily_pnl, pnl)
    /\ consecutive_losses' = IF RLt(pnl, Zero) THEN consecutive_losses + 1 ELSE 0
    /\ pnl_log' = Append(pnl_log, pnl)

ResetDaily ==
    /\ daily_pnl' = Zero
    /\ consecutive_losses' = 0
    /\ pnl_log' = <<>>

----------------------------------------------------------------------------
(* PaperTrader and OKXTrader *)

\* the paper fill with the fee charged on the requested price instead of the
\* filled price
PaperExecuteOrderFeeOnRequestedPrice(order, current_price) ==
    LET filled_price ==
            IF order.order_type = OrderType.MARKET
            THEN IF order.side = OrderSide.BUY
                 THEN RMul(current_price, RAdd(One, slippage_pct))
                 ELSE RMul(current_price, RSub(One, slippage_pct))
            ELSE order.price
        value == RMul(order.quantity, current_price)
        fee == RMul(value, fee_pct)
    IN [filled_price |-> Some(filled_price),
        filled_quantity |-> Some(order.quantity),
        fee |-> Some(fee),
        status |-> Some(OrderStatus.FILLED)]

PaperExecuteOrder(order, current_price) ==
    LET filled_price ==
            IF order.order_type = OrderType.MARKET
            THEN IF order.side = OrderSide.BUY
                 THEN RMul(current_price, RAdd(One, slippage_pct))
                 ELSE RMul(current_price, RSub(One, slippage_pct))
            ELSE order.price
        value == RMul(order.quantity, filled_price)
        fee == RMul(value, fee_pct)
    IN [filled_price |-> Some(filled_price),
        filled_quantity |-> Some(order.quantity),
        fee |-> Some(fee),
        status |-> Some(OrderStatus.FILLED)]

\* OKXTrader.execute_order returns {}: every .get() on it yields None
LiveExecuteOrder(order, current_price) ==
    [filled_price |-> None, filled_quantity |-> None, fee |-> None,
     status |-> None]

----------------------------------------------------------------------------
(* Trader *)

RiskState == <<daily_pnl, consecutive_losses, pnl_log>>
Store == <<orders, positions>>

SaveOrder(order, execution_result) ==
    orders' = Append(orders,
        [model_id |-> order.model_id, symbol |-> order.symbol,
         side |-> order.side, order_type |-> order.order_type,
         price |-> order.price,
         filled_price |-> execution_result.filled_price,
         quantity |-> order.quantity,
         filled_quantity |-> execution_result.filled_quantity,
         fee |-> execution_result.fee,
         status |-> execution_result.status,
         mode |-> mode])

\* the position query without its closed_at IS NULL condition
OpenPositionsIncludingClosed(model_id) ==
    { i \in DOMAIN positions :
        /\ positions[i].model_id = model_id
        /\ positions[i].symbol = Symbol }

\* ids of the rows selected by
\* WHERE model_id = $1 AND symbol = $2 AND closed_at IS NULL
OpenPositions(model_id) ==
    { i \in DOMAIN positions :
        /\ positions[i].model_id = model_id
        /\ positions[i].symbol = Symbol
        /\ positions[i].closed_at = None }

\* NOW() of the store: a logical clock, the number of position rows and
\* closes so far plus one
Now == Len(positions) + Cardinality({i \in DOMAIN positions : positions[i].closed_at # None}) + 1

\* the realized pnl with entry and exit price exchanged
RealizedPnlReversed(filled_price, entry_price, filled_quantity) ==
    RMul(RSub(entry_price, filled_price), filled_quantity)

\* pnl = (filled_price - position['entry_price']) * filled_quantity
RealizedPnl(filled_price, entry_price, filled_quantity) ==
    RMul(RSub(filled_price, entry_price), filled_quantity)

\* update_position that inserts a row for every filled BUY without looking
\* for an open position first
UpdatePositionNoLookup(model_id, order, execution_result) ==
    LET open == OpenPositions(model_id)
        filled_price == execution_result.filled_price[1]
        filled_quantity == execution_result.filled_quantity[1]
    IN IF order.side = OrderSide.BUY
       THEN /\ positions' = Append(positions,
                    [model_id |-> model_id, symbol |-> Symbol,
                     side |-> "long", quantity |-> filled_quantity,
                     entry_price |-> filled_price, mode |-> mode,
                     closed_at |-> None])
            /\ UNCHANGED <<daily_pnl, consecutive_losses, pnl_log>>
       ELSE IF open = {}
       THEN UNCHANGED <<positions, daily_pnl, consecutive_losses, pnl_log>>
       ELSE \E id \in open :
              LET pnl == RealizedPnl(filled_price, positions[id].entry_price,
                                     filled_quantity)
              IN /\ positions' = [positions EXCEPT ![id].closed_at = Some(Now)]
                 /\ UpdatePnl(pnl)

\* update_position that adds a filled BUY to the open long position
UpdatePositionAveraging(model_id, order, execution_result) ==
    LET open == OpenPositions(model_id)
        filled_price == execution_result.filled_price[1]
        filled_quantity == execution_result.filled_quantity[1]
    IN IF open = {}
       THEN /\ IF order.side = OrderSide.BUY
               THEN positions' = Append(positions,
                        [model_id |-> model_id, symbol |-> Symbol,
                         side |-> "long", quantity |-> filled_quantity,
                         entry_price |-> filled_price, mode |-> mode,
                         closed_at |-> None])
               ELSE UNCHANGED positions
            /\ UNCHANGED <<daily_pnl, consecutive_losses, pnl_log>>
       ELSE \E id \in open :
              LET position == positions[id]
              IN IF order.side = OrderSide.SELL /\ position.side = "long"
                 THEN LET pnl == RealizedPnl(filled_price, position.entry_price,
                                             filled_quantity)
                      IN /\ positions' = [positions EXCEPT ![id].closed_at = Some(Now)]
                         /\ UpdatePnl(pnl)
                 ELSE /\ positions' = [positions EXCEPT ![id].quantity =
                                           RAdd(position.quantity, filled_quantity)]
                      /\ UNCHANGED <<daily_pnl, consecutive_losses, pnl_log>>

UpdatePosition(model_id, order, execution_result) ==
    LET open == OpenPositions(model_id)
        filled_price == execution_result.filled_price[1]
        filled_quantity == execution_result.filled_quantity[1]
    IN IF open = {}
       THEN /\ IF order.side = OrderSide.BUY
               THEN positions' = Append(positions,
                        [model_id |-> model_id, symbol |-> Symbol,
                         side |-> "long", quantity |-> filled_quantity,
                         entry_price |-> filled_price, mode |-> mode,
                         closed_at |-> None])
               ELSE UNCHANGED positions
            /\ UNCHANGED <<daily_pnl, consecutive_losses, pnl_log>>
       ELSE \E id \in open :
              LET position == positions[id]
              IN IF order.side = OrderSide.SELL /\ position.side = "long"
                 THEN LET pnl == RealizedPnl(filled_price, position.entry_price,
                                             filled_quantity)
                      IN /\ positions' = [positions EXCEPT ![id].closed_at = Some(Now)]
                         /\ UpdatePnl(pnl)
                 ELSE UNCHANGED <<positions, daily_pnl, consecutive_losses, pnl_log>>

\* a denial that records the denied order as a rejected row
RejectOrderRecorded(order, reason) ==
    /\ log' = <<"Order rejected by risk manager">>
    /\ orders' = Append(orders,
           [model_id |-> order.model_id, symbol |-> order.symbol,
            side |-> order.side, order_type |-> order.order_type,
            price |-> order.price, filled_price |-> None,
            quantity |-> order.quantity, filled_quantity |-> None,
            fee |-> None, status |-> Some(OrderStatus.REJECTED),
            mode |-> mode])
    /\ UNCHANGED <<RiskState, positions>>

\* the risk manager denied the order: warn and return
RejectOrder(order, reason) ==
    /\ log' = <<"Order rejected by risk manager">>
    /\ UNCHANGED <<RiskState, Store>>

\* save_order, then update_position when the execution reports a fill
RecordExecution(model_id, order, execution_result) ==
    /\ SaveOrder(order, execution_result)
    /\ IF execution_result.status = Some(OrderStatus.FILLED)
       THEN UpdatePosition(model_id, order, execution_result)
       ELSE UNCHANGED <<positions, daily_pnl, consecutive_losses, pnl_log>>

\* the mode dispatch with shadow mode falling through to the paper trader
ExecuteByModeShadowAsPaper(model_id, order, price) ==
    IF mode = TradingMode.LIVE
    THEN /\ RecordExecution(model_id, order, LiveExecuteOrder(order, price))
         /\ log' = <<"Live trading not yet implemented", "Order saved">>
    ELSE /\ RecordExecution(model_id, order, PaperExecuteOrder(order, price))
         /\ log' = <<"Paper trade executed", "Order saved">>

\* "Execute based on mode" and what follows it
ExecuteByMode(model_id, order, price) ==
    IF mode = TradingMode.PAPER
    THEN /\ RecordExecution(model_id, order, PaperExecuteOrder(order, price))
         /\ log' = <<"Paper trade executed", "Order saved">>
    ELSE IF mode = TradingMode.LIVE
    THEN /\ RecordExecution(model_id, order, LiveExecuteOrder(order, price))
         /\ log' = <<"Live trading not yet implemented", "Order saved">>
    ELSE /\ log' = <<"Shadow mode: signal received but not executed">>
         /\ UNCHANGED <<RiskState, Store>>

ExecuteSignal(signal_data) ==
    LET signal_type == signal_data.signal_type
        price == FromInt(signal_data.price)
        model_id == signal_data.model_id
    IN /\ UNCHANGED <<mode, trader_config>>
       /\ IF signal_type \notin {"BUY", "SELL"}
          THEN /\ log' = <<>>
               /\ check_result' = None
               /\ UNCHANGED <<RiskState, Store>>
          ELSE IF price = Zero
          THEN \* quantity = position_size / price raises ZeroDivisionError,
               \* caught and logged by listen_for_signals
               /\ log' = <<"Error in signal listener">>
               /\ check_result' = None
               /\ UNCHANGED <<RiskState, Store>>
          ELSE LET side == IF signal_type = "BUY" THEN OrderSide.BUY ELSE OrderSide.SELL
                   quantity == RDiv(position_size, price)
                   order == Order(model_id, side, quantity, price)
                   result == CheckRiskLimits(order)
               IN /\ check_result' = Some([allowed |-> result.allowed,
                                           reason |-> result.reason,
                                           order |-> order])
                  /\ IF ~result.allowed
                     THEN RejectOrder(order, result.reason)
                     ELSE ExecuteByMode(model_id, order, price)
       /\ Len(orders') <= MaxOrders

\* update_position that books the pnl of a close before writing the close
UpdatePositionFailsAfterPnl(model_id, order, execution_result) ==
    LET open == OpenPositions(model_id)
    IN IF open # {} /\ order.side = OrderSide.SELL
       THEN \E id \in open :
               /\ UpdatePnl(RealizedPnl(execution_result.filled_price[1],
                                        positions[id].entry_price,
                                        execution_result.filled_quantity[1]))
               /\ UNCHANGED positions
       ELSE UNCHANGED <<positions, daily_pnl, consecutive_losses, pnl_log>>

\* update_position when a store call of it raises (the SELECT, the INSERT
\* or the UPDATE): update_pnl follows the UPDATE and has not run
UpdatePositionFails(model_id, order, execution_result) ==
    UNCHANGED <<positions, daily_pnl, consecutive_losses, pnl_log>>

\* execute_signal on an order the risk check allows, when the store raises
\* in save_order or in update_position: the error leaves execute_signal
\* and is logged by listen_for_signals
ExecuteSignalStoreFails(signal_data, call) ==
    LET price == FromInt(signal_data.price)
        model_id == signal_data.model_id
        side == IF signal_data.signal_type = "BUY" THEN OrderSide.BUY
                                                   ELSE OrderSide.SELL
        order == Order(model_id, side, RDiv(position_size, price), price)
        result == CheckRiskLimits(order)
        execution_result == IF mode = TradingMode.PAPER
                            THEN PaperExecuteOrder(order, price)
                            ELSE LiveExecuteOrder(order, price)
    IN /\ signal_data.signal_type \in {"BUY", "SELL"}
       /\ price # Zero
       /\ mode # TradingMode.SHADOW
       /\ result.allowed
       /\ check_result' = Some([allowed |-> result.allowed,
                                reason |-> result.reason,
                                order |-> order])
       /\ IF call = "save_order"
          THEN /\ log' = <<"Error in signal listener">>
               /\ UNCHANGED <<RiskState, Store>>
          ELSE /\ execution_result.status = Some(OrderStatus.FILLED)
               /\ SaveOrder(order, execution_result)
               /\ UpdatePositionFails(model_id, order, execution_result)
               /\ log' = <<"Order saved", "Error in signal listener">>
       /\ Len(orders') <= MaxOrders
       /\ UNCHANGED <<mode, trader_config>>

----------------------------------------------------------------------------
(* ModelExecutor: signal emission *)

\* seconds of the rate limiter's window
RateWindow == 60

\* rate limits the model is run with: the default and a small one
DefaultSignalLimit == 5
SignalLimits == {2, DefaultSignalLimit}

\* signal values handed to emit_signal (process_candle calls it for a
\* non-zero value only), the close of the latest bar, and the seconds
\* elapsed since the previous call
SignalValues == {1, -1}
ClosePrices == {100}
ElapsedSeconds == {0, 59, 60}

\* the config column of a models row as load_active_model receives it: a
\* str, of which the text is kept, or a dict, of which the set of items is
Str(text) == [isinstance |-> "str", text |-> text, items |-> {}]
Dict(items) == [isinstance |-> "dict", text |-> "", items |-> items]

\* str(config).replace("'", '"') of the get_config() of the two strategies,
\* as Model.create stores it
EmaRsiConfigText ==
    "{\"strategy\": \"ema_rsi\", \"ema_fast\": 9, \"ema_slow\": 21, \"rsi_overbought\": 70, \"rsi_oversold\": 30}"
MacdBbConfigText == "{\"strategy\": \"macd_bb\"}"

\* json.loads: the objects of the JSON texts the model is run with; any
\* other text raises JSONDecodeError (None)
JsonObjects ==
    (EmaRsiConfigText :>
        {<<"strategy", "ema_rsi">>, <<"ema_fast", "9">>, <<"ema_slow", "21">>,
         <<"rsi_overbought", "70">>, <<"rsi_oversold", "30">>})
    @@ (MacdBbConfigText :> {<<"strategy", "macd_bb">>})
    @@ ("{\"strategy\": \"rsi_only\"}" :> {<<"strategy", "rsi_only">>})
    @@ ("{\"ema_fast\": 9}" :> {<<"ema_fast", "9">>})

JsonLoads(text) ==
    IF text \in DOMAIN JsonObjects THEN Some(JsonObjects[text]) ELSE None

\* load_active_model's "Parse config if it's a string": a text that fails
\* to parse is replaced by the empty dict
ParseConfig(config) ==
    IF config.isinstance = "str"
    THEN IF JsonLoads(config.text) # None THEN JsonLoads(config.text)[1]
         ELSE {}
    ELSE config.items

\* dict.get(key)
DictGet(items, key) ==
    IF \E kv \in items : kv[1] = key
    THEN Some((CHOOSE kv \in items : kv[1] = key)[2])
    ELSE None

\* generate_signal that falls back to the EMA_RSI rule
GenerateSignalFallback(config, strategy_signal) == strategy_signal

\* SignalGenerator.generate_signal: the dispatch on config.get('strategy');
\* strategy_signal is what the rule of the named strategy returns for the
\* window
GenerateSignal(config, strategy_signal) ==
    LET strategy == DictGet(config, "strategy")
    IN IF strategy = Some("ema_rsi") THEN strategy_signal
       ELSE IF strategy = Some("macd_bb") THEN strategy_signal
       ELSE 0

\* the model row the executor has loaded
ActiveModel == [id |-> 1, name |-> "EMA_RSI", config |-> Str(EmaRsiConfigText)]

\* ModelExecutor.model_config
ModelConfig == ParseConfig(model[1].config)

\* config columns of an active model: the texts Model.create stores, texts
\* with an unknown and with no strategy tag, a text that is no JSON, and
\* dicts with a known, an unknown and no strategy tag
ModelConfigs ==
    {Str(EmaRsiConfigText), Str(MacdBbConfigText),
     Str("{\"strategy\": \"rsi_only\"}"), Str("{\"ema_fast\": 9}"),
     Str("{'strategy': 'ema_rsi'}"),
     Dict({<<"strategy", "macd_bb">>}), Dict({<<"strategy", "momentum">>}),
     Dict({})}

\* Streams.publish_signal on Signal.to_dict(): the entry added to
\* stream:signals; emit_no is the number of the emit_signal call that
\* produced it
SignalMessage(model_id, signal_type, timestamp, price, emit_no) ==
    [model_id |-> model_id, symbol |-> Symbol, signal_type |-> signal_type,
     timestamp |-> timestamp,
     data |-> [signal_type |-> signal_type, price |-> price,
               model_id |-> model_id],
     emit_no |-> emit_no]

\* "Rate limiting" of emit_signal: whether the call goes on to publish, and
\* the new signal_count and last_signal_time
RateLimit(now) ==
    IF last_signal_time # None
    THEN IF now - last_signal_time[1] < RateWindow
         THEN [publish |-> signal_count + 1 <= max_signals_per_minute,
               count |-> signal_count + 1, last |-> last_signal_time]
         ELSE [publish |-> TRUE, count |-> 1, last |-> Some(now)]
    ELSE [publish |-> TRUE, count |-> 1, last |-> Some(now)]

\* emit_signal, called elapsed seconds after the previous call
EmitSignal(signal_value, price, elapsed) ==
    LET now == clock + elapsed
        limit == RateLimit(now)
        signal_type == IF signal_value = 1 THEN SignalType.BUY ELSE SignalType.SELL
    IN /\ model # None
       /\ clock' = now
       /\ emitted' = emitted + 1
       /\ signal_count' = limit.count
       /\ last_signal_time' = limit.last
       /\ IF limit.publish
          THEN /\ signals' = Append(signals,
                      SignalMessage(model[1].id, signal_type, now, price, emitted + 1))
               /\ dropped' = dropped
               /\ log' = <<"Signal generated">>
          ELSE /\ signals' = signals
               /\ dropped' = dropped \cup {emitted + 1}
               /\ log' = <<"Signal rate limit exceeded">>
       /\ UNCHANGED <<model, max_signals_per_minute>>

----------------------------------------------------------------------------
(* main() of a service: init, run, cleanup *)

Services == {"trader", "executor"}

\* count of a stream read, and the sleeps of the loops, in seconds
ReadCount == 10
ErrorBackoff == 10
SignalInterval == 1
CheckInterval == 60
PollInterval == 60

\* the suspension points of init() and run()
Running == {"init_db", "init_redis", "init_live", "load_model", "wait_model",
            "read", "process", "sleep"}
\* those of the consumption loop
InLoop == {"read", "process", "sleep"}

\* main(): except Exception logs "Fatal error" and re-raises, finally
\* runs cleanup()
Fatal(path) ==
    /\ pc' = "cleanup"
    /\ exit_path' = path
    /\ log' = <<"Fatal error">>

\* Database.connect
DbConnect ==
    /\ pc = "init_db"
    /\ db_pool' = "open"
    /\ pc' = "init_redis"
    /\ UNCHANGED <<strategyVars, traderVars, log, emitVars, service, exit_path, loopVars,
                   redis_client, http_client, candles, active_model>>

\* Database.connect raises: the store is unreachable
DbConnectFails ==
    /\ pc = "init_db"
    /\ Fatal("init_error")
    /\ UNCHANGED <<strategyVars, traderVars, emitVars, service, loopVars, handles, candles,
                   active_model>>

\* RedisStreams.connect
RedisConnect ==
    /\ pc = "init_redis"
    /\ redis_client' = "open"
    /\ pc' = IF service = "trader" THEN "init_live" ELSE "load_model"
    /\ UNCHANGED <<strategyVars, traderVars, log, emitVars, service, exit_path, loopVars,
                   db_pool, http_client, candles, active_model>>

\* OKXTrader.init, the end of Trader.init, and Trader.run
LiveTraderInit ==
    /\ pc = "init_live"
    /\ http_client' = "open"
    /\ pc' = "read"
    /\ log' = <<"OKX Trader initialized", "Trader initialized">>
    /\ UNCHANGED <<strategyVars, traderVars, emitVars, service, exit_path, loopVars,
                   db_pool, redis_client, candles, active_model>>

\* a row with status 'active' and this config is written to table models
ActivateModelConfigured(config) ==
    /\ service = "executor"
    /\ pc \in Running
    /\ active_model = None
    /\ active_model' = Some([ActiveModel EXCEPT !.config = config])
    /\ UNCHANGED <<strategyVars, traderVars, log, emitVars, service, pc, exit_path, loopVars,
                   handles, candles>>

\* a row with status 'active' is written to table models
ActivateModel == ActivateModelConfigured(ActiveModel.config)

\* Model.get_active: the latest row with status 'active', the row written
\* from outside being later than the rows generate_models created
GetActive ==
    LET active == {i \in DOMAIN models : models[i].status = "active"}
    IN IF active_model # None THEN active_model
       ELSE IF active # {}
       THEN Some(models[CHOOSE i \in active : \A j \in active : j <= i])
       ELSE None

\* the wait loop of run() that gives up after one poll
LoadActiveModelOnce ==
    /\ pc \in {"load_model", "wait_model"}
    /\ model' = active_model
    /\ IF active_model # None
       THEN /\ pc' = "read"
            /\ exit_path' = exit_path
            /\ log' = <<"Active model loaded">>
       ELSE /\ pc' = IF pc = "load_model" THEN "wait_model" ELSE "cleanup"
            /\ exit_path' = IF pc = "load_model" THEN exit_path ELSE "run_error"
            /\ log' = <<"No active model found">>
    /\ sleep_seconds' = IF pc' = "wait_model" THEN PollInterval ELSE sleep_seconds
    /\ UNCHANGED <<strategyVars, traderVars, clock, max_signals_per_minute, last_signal_time,
                   signal_count, emitted, dropped, signals, service,
                   failure, batch, batch_pos, processed, handles, candles,
                   active_model>>

\* load_active_model, called by init() and, after each sleep of
\* PollInterval seconds, by the wait loop of run()
LoadActiveModel ==
    /\ pc \in {"load_model", "wait_model"}
    /\ model' = GetActive
    /\ IF GetActive # None
       THEN /\ pc' = "read"
            /\ log' = <<"Active model loaded">>
       ELSE /\ pc' = "wait_model"
            /\ log' = <<"No active model found">>
    /\ sleep_seconds' = IF pc' = "wait_model" THEN PollInterval ELSE sleep_seconds
    /\ UNCHANGED <<strategyVars, traderVars, clock, max_signals_per_minute, last_signal_time,
                   signal_count, emitted, dropped, signals, service, exit_path,
                   failure, batch, batch_pos, processed, handles, candles,
                   active_model>>

\* Model.get_active raises: the store is unreachable
LoadActiveModelFails ==
    /\ pc \in {"load_model", "wait_model"}
    /\ Fatal(IF pc = "load_model" THEN "init_error" ELSE "run_error")
    /\ UNCHANGED <<strategyVars, traderVars, emitVars, service, loopVars, handles, candles,
                   active_model>>

\* a shutdown request or a cancellation reaches main() at a suspension
\* point of init() or run(): neither is caught by the loops' except Exception
Cancel(path) ==
    /\ pc \in Running
    /\ pc' = "cleanup"
    /\ exit_path' = path
    /\ log' = IF path = "shutdown" THEN <<"Shutdown requested">> ELSE <<>>
    /\ UNCHANGED <<strategyVars, traderVars, emitVars, service, loopVars, handles, candles,
                   active_model>>

\* what close() leaves of a handle
Closed(handle) == IF handle = "open" THEN "closed" ELSE handle

\* cleanup() that leaves the database pool open
CleanupBusOnly ==
    /\ pc = "cleanup"
    /\ http_client' = IF service = "trader" THEN Closed(http_client) ELSE http_client
    /\ redis_client' = Closed(redis_client)
    /\ db_pool' = db_pool
    /\ pc' = "done"
    /\ log' = IF service = "trader"
              THEN <<"OKX Trader shut down", "Trader shut down">>
              ELSE <<"Executor shut down">>
    /\ UNCHANGED <<strategyVars, traderVars, emitVars, service, exit_path, loopVars, candles,
                   active_model>>

\* Trader.cleanup / ModelExecutor.cleanup, run by the finally of main()
Cleanup ==
    /\ pc = "cleanup"
    /\ http_client' = IF service = "trader" THEN Closed(http_client) ELSE http_client
    /\ redis_client' = Closed(redis_client)
    /\ db_pool' = Closed(db_pool)
    /\ pc' = "done"
    /\ log' = IF service = "trader"
              THEN <<"OKX Trader shut down", "Trader shut down">>
              ELSE <<"Executor shut down">>
    /\ UNCHANGED <<strategyVars, traderVars, emitVars, service, exit_path, loopVars, candles,
                   active_model>>

----------------------------------------------------------------------------
(* The consumption loops: listen_for_signals and listen_for_candles *)

\* the stream the service's loop reads, its sleep after a batch, and what
\* its except Exception logs
LoopStream == IF service = "trader" THEN signals ELSE candles
LoopInterval == IF service = "trader" THEN SignalInterval ELSE CheckInterval
ErrorMessage ==
    IF service = "trader" THEN "Error in signal listener"
                          ELSE "Error in candle listener"

\* signals on stream:signals the Trader listens to, and candle symbols on
\* stream:candles
ListenSignals ==
    {sd \in Signals :
        /\ sd.model_id = 1
        /\ \/ sd.signal_type = SignalType.BUY /\ sd.price \in {0, 100}
           \/ sd.signal_type = SignalType.SELL /\ sd.price = 200
           \/ sd.signal_type = SignalType.HOLD /\ sd.price = 100}
CandleSymbols == {Symbol, "ETH-USDT"}
CandleSignalValues == {0, 1, -1}

\* RedisStreams.read({stream: '0'}, count): the positions of the oldest
\* count entries of the stream
ReadBatch(stream, count) ==
    [k \in 1..(IF Len(stream) < count THEN Len(stream) ELSE count) |-> k]

\* execute_signal raises on this payload (division by a zero price)
Raises(signal_data) ==
    /\ signal_data.signal_type \in {"BUY", "SELL"}
    /\ signal_data.price = 0

\* execute_signal reaches the store with this payload: save_order is called
\* when the mode places orders and the risk check allows the order
ReachesStore(signal_data) ==
    /\ signal_data.signal_type \in {"BUY", "SELL"}
    /\ signal_data.price # 0
    /\ mode # TradingMode.SHADOW
    /\ LET price == FromInt(signal_data.price)
           side == IF signal_data.signal_type = "BUY" THEN OrderSide.BUY
                                                      ELSE OrderSide.SELL
           order == Order(signal_data.model_id, side,
                          RDiv(position_size, price), price)
       IN CheckRiskLimits(order).allowed

\* an except clause that lets the error end the loop
CaughtEndsLoop(kind) ==
    /\ pc' = "cleanup"
    /\ exit_path' = "run_error"
    /\ sleep_seconds' = sleep_seconds
    /\ failure' = kind

\* except Exception of the loop: log, asyncio.sleep(10), next iteration
Caught(kind) ==
    /\ pc' = "sleep"
    /\ exit_path' = exit_path
    /\ sleep_seconds' = ErrorBackoff
    /\ failure' = kind

\* the for loop once a message is done: the next message, or the sleep
\* that ends the iteration
Advance ==
    /\ IF batch_pos < Len(batch)
       THEN /\ pc' = "process"
            /\ batch_pos' = batch_pos + 1
            /\ sleep_seconds' = sleep_seconds
       ELSE /\ pc' = "sleep"
            /\ batch_pos' = batch_pos
            /\ sleep_seconds' = LoopInterval
    /\ exit_path' = exit_path
    /\ failure' = failure

\* redis.read at the top of the loop
Read ==
    /\ pc = "read"
    /\ batch' = ReadBatch(LoopStream, ReadCount)
    /\ failure' = failure
    /\ IF batch' = <<>>
       THEN /\ pc' = "sleep"
            /\ batch_pos' = 0
            /\ sleep_seconds' = LoopInterval
       ELSE /\ pc' = "process"
            /\ batch_pos' = 1
            /\ sleep_seconds' = sleep_seconds
    /\ UNCHANGED <<strategyVars, traderVars, log, emitVars, service, exit_path, processed,
                   handles, candles, active_model>>

\* redis.read raises: the bus is unreachable
ReadFails ==
    /\ pc = "read"
    /\ Caught("bus")
    /\ batch' = <<>>
    /\ batch_pos' = 0
    /\ log' = <<ErrorMessage>>
    /\ UNCHANGED <<strategyVars, traderVars, emitVars, service, processed, handles, candles,
                   active_model>>

\* the body of the for loop of listen_for_signals on one message
ProcessSignal ==
    /\ service = "trader"
    /\ pc = "process"
    /\ LET signal_data == signals[batch[batch_pos]].data
       IN /\ ExecuteSignal(signal_data)
          /\ IF Raises(signal_data)
             THEN /\ Caught("evaluation")
                  /\ UNCHANGED <<batch_pos, processed>>
             ELSE /\ Advance
                  /\ processed' = processed \cup {batch[batch_pos]}
    /\ UNCHANGED <<strategyVars, emitVars, service, batch, handles, candles, active_model>>

\* execute_signal raises at save_order: the store is unreachable
ProcessSignalStoreFails ==
    /\ service = "trader"
    /\ pc = "process"
    /\ ReachesStore(signals[batch[batch_pos]].data)
    /\ Caught("store")
    /\ log' = <<ErrorMessage>>
    /\ UNCHANGED <<strategyVars, traderVars, emitVars, service, batch, batch_pos, processed,
                   handles, candles, active_model>>

\* the body of the for loop of listen_for_candles on one message:
\* process_candle, which emits when the generator returns a signal, and
\* xsetid; signal_value is what the strategy's rule returns for the window
ProcessCandle(signal_value, price, elapsed) ==
    /\ service = "executor"
    /\ pc = "process"
    /\ IF candles[batch[batch_pos]].symbol = Symbol
          /\ GenerateSignal(ModelConfig, signal_value) # 0
       THEN /\ emitted < MaxCandleSignals
            /\ EmitSignal(GenerateSignal(ModelConfig, signal_value), price, elapsed)
       ELSE UNCHANGED <<emitVars, log>>
    /\ processed' = IF candles[batch[batch_pos]].symbol = Symbol
                    THEN processed \cup {batch[batch_pos]}
                    ELSE processed
    /\ Advance
    /\ UNCHANGED <<strategyVars, traderVars, service, batch, handles, candles,
                   active_model>>

\* process_candle or xsetid raises
ProcessCandleFails(kind) ==
    /\ service = "executor"
    /\ pc = "process"
    /\ candles[batch[batch_pos]].symbol = Symbol
    /\ Caught(kind)
    /\ log' = <<ErrorMessage>>
    /\ UNCHANGED <<strategyVars, traderVars, emitVars, service, batch, batch_pos, processed,
                   handles, candles, active_model>>

\* asyncio.sleep returns and the while loop starts its next iteration
Wake ==
    /\ pc = "sleep"
    /\ pc' = "read"
    /\ failure' = "none"
    /\ UNCHANGED <<strategyVars, traderVars, log, emitVars, service, exit_path,
                   sleep_seconds, batch, batch_pos, processed, handles,
                   candles, active_model>>

\* an executor publishes a signal to stream:signals
PublishSignal(signal_data, max) ==
    /\ service = "trader"
    /\ pc \in Running
    /\ Len(signals) < max
    /\ signals' = Append(signals,
           SignalMessage(signal_data.model_id, signal_data.signal_type, clock,
                         signal_data.price, Len(signals) + 1))
    /\ UNCHANGED <<strategyVars, traderVars, log, clock, max_signals_per_minute,
                   last_signal_time, signal_count, model, emitted, dropped,
                   serviceVars>>

\* the ingestor publishes a candle to stream:candles
PublishCandle(symbol) ==
    /\ service = "executor"
    /\ pc \in Running
    /\ Len(candles) < MaxStream
    /\ candles' = Append(candles, [symbol |-> symbol])
    /\ UNCHANGED <<strategyVars, traderVars, log, emitVars, service, pc, exit_path, loopVars,
                   handles, active_model>>

----------------------------------------------------------------------------
(* The EMA_RSI signal generators: online and offline *)

MaxBars == 23

\* _ema_rsi_signal returns 0 on a window of fewer bars
MinBars == 22
\* indicators.rsi: rolling(window=14) is NaN on the first 13 rows
RsiLength == 14
\* EMARSIStrategy.rsi_oversold and rsi_overbought
rsi_oversold == 30
rsi_overbought == 70

\* values of ema_9 and ema_21 (ewm has no warm-up: they are numbers on
\* every row) and of rsi_14, where None is NaN
EmaValues == {1, 2, 3}
RsiValues == {None, Some(25), Some(30), Some(50), Some(70), Some(75)}

\* the rows a feature frame can have at position i (from 1): rsi_14 is
\* NaN before row RsiLength, and can be NaN after it (0/0 on flat prices)
Rows(i) ==
    {[ema_9 |-> f, ema_21 |-> 2, rsi_14 |-> r] :
        f \in EmaValues,
        r \in IF i < RsiLength THEN {None} ELSE RsiValues}

\* a row of the part of the frame the last signal does not depend on
Filler(i) ==
    [ema_9 |-> 2, ema_21 |-> 2,
     rsi_14 |-> IF i < RsiLength THEN None ELSE Some(50)]

\* the feature frames of n rows, by their last two rows
Frames(n) ==
    IF n = 1
    THEN {<<last>> : last \in Rows(1)}
    ELSE {[i \in 1..n |-> IF i = n THEN rows[2]
                          ELSE IF i = n - 1 THEN rows[1] ELSE Filler(i)] :
            rows \in Rows(n - 1) \X Rows(n)}

\* comparisons of a possibly-NaN value with a number: False on NaN
NanLt(x, c) == x # None /\ x[1] < c
NanGt(x, c) == x # None /\ x[1] > c

\* SignalGenerator._ema_rsi_signal on a window
EmaRsiSignal(df) ==
    LET n == Len(df)
        ema_fast == df[n].ema_9
        ema_slow == df[n].ema_21
        ema_fast_prev == df[n - 1].ema_9
        ema_slow_prev == df[n - 1].ema_21
        rsi == df[n].rsi_14
    IN IF n < MinBars THEN 0
       ELSE IF ema_fast > ema_slow /\ ema_fast_prev <= ema_slow_prev
                 /\ NanLt(rsi, 30)
       THEN 1
       ELSE IF ema_fast < ema_slow /\ ema_fast_prev >= ema_slow_prev
                 /\ NanGt(rsi, 70)
       THEN -1
       ELSE 0

\* EMARSIStrategy.generate_signals: the series of signals of a frame;
\* shift(1) is NaN on the first row
GenerateSignals(df) ==
    [i \in 1..Len(df) |->
        LET golden_cross == /\ df[i].ema_9 > df[i].ema_21
                            /\ i > 1
                            /\ df[i - 1].ema_9 <= df[i - 1].ema_21
            death_cross == /\ df[i].ema_9 < df[i].ema_21
                           /\ i > 1
                           /\ df[i - 1].ema_9 >= df[i - 1].ema_21
            oversold == NanLt(df[i].rsi_14, rsi_oversold)
            overbought == NanGt(df[i].rsi_14, rsi_overbought)
        IN IF death_cross /\ overbought THEN -1
           ELSE IF golden_cross /\ oversold THEN 1
           ELSE 0]

\* a feature frame is built
BuildFrame(df) ==
    /\ frame = <<>>
    /\ frame' = df
    /\ UNCHANGED <<traderVars, log, emitVars, serviceVars, modelgenVars, online_signal,
                   offline_signals, signal_strength>>

\* both generators are run on the frame
Evaluate ==
    /\ frame # <<>>
    /\ online_signal = None
    /\ online_signal' = Some(EmaRsiSignal(frame))
    /\ offline_signals' = Some(GenerateSignals(frame))
    /\ UNCHANGED <<traderVars, log, emitVars, serviceVars, modelgenVars, frame,
                   signal_strength>>

\* the strength that counts a moderate confirmation on top of a strong one
CalculateSignalStrengthAdditive(df, signal_value) ==
    LET rsi == df[Len(df)].rsi_14
        strong == IF signal_value = 1 THEN NanLt(rsi, 30) ELSE NanGt(rsi, 70)
        moderate == IF signal_value = 1 THEN NanLt(rsi, 40) ELSE NanGt(rsi, 60)
        strength == RAdd(RAdd(Rat(1, 2), IF strong THEN Rat(1, 5) ELSE Zero),
                         IF moderate THEN Rat(1, 10) ELSE Zero)
    IN IF Len(df) < 2 THEN Rat(1, 2)
       ELSE IF RLt(strength, One) THEN strength ELSE One

\* ModelExecutor._calculate_signal_strength
CalculateSignalStrength(df, signal_value) ==
    LET rsi == df[Len(df)].rsi_14
        base == Rat(1, 2)
        strength ==
            IF signal_value = 1
            THEN IF NanLt(rsi, 30) THEN RAdd(base, Rat(1, 5))
                 ELSE IF NanLt(rsi, 40) THEN RAdd(base, Rat(1, 10))
                 ELSE base
            ELSE IF signal_value = -1
            THEN IF NanGt(rsi, 70) THEN RAdd(base, Rat(1, 5))
                 ELSE IF NanGt(rsi, 60) THEN RAdd(base, Rat(1, 10))
                 ELSE base
            ELSE base
    IN IF Len(df) < 2 THEN Rat(1, 2)
       ELSE IF RLt(strength, One) THEN strength ELSE One

\* emit_signal computes the strength of a signal from the frame
EvaluateStrength(signal_value) ==
    /\ frame # <<>>
    /\ signal_strength = None
    /\ signal_strength' = Some([signal_value |-> signal_value,
                                strength |-> CalculateSignalStrength(frame, signal_value)])
    /\ UNCHANGED <<traderVars, log, emitVars, serviceVars, modelgenVars, frame,
                   online_signal, offline_signals>>

----------------------------------------------------------------------------
(* The MACD_BB signal generators: online and offline *)

\* indicators.bollinger_bands: rolling(window=20) is NaN on the first 19 rows
BbLength == 20

\* values of macd, macd_signal (numbers on every row) and close, and of
\* the Bollinger bands, where None is NaN
MacdValues == {1, 2, 3}
CloseValues == {1, 5, 9}
BandLower == 3
BandUpper == 7

\* the rows a MACD_BB feature frame can have at position i (from 1)
MacdRows(i) ==
    {[macd |-> m, macd_signal |-> 2, close |-> c,
      bollinger_lower |-> IF i < BbLength THEN None ELSE Some(BandLower),
      bollinger_upper |-> IF i < BbLength THEN None ELSE Some(BandUpper)] :
        m \in MacdValues, c \in CloseValues}

MacdFiller(i) ==
    [macd |-> 2, macd_signal |-> 2, close |-> 5,
     bollinger_lower |-> IF i < BbLength THEN None ELSE Some(BandLower),
     bollinger_upper |-> IF i < BbLength THEN None ELSE Some(BandUpper)]

\* the MACD_BB feature frames of n rows, by their last two rows
MacdFrames(n) ==
    IF n = 1
    THEN {<<last>> : last \in MacdRows(1)}
    ELSE {[i \in 1..n |-> IF i = n THEN rows[2]
                          ELSE IF i = n - 1 THEN rows[1] ELSE MacdFiller(i)] :
            rows \in MacdRows(n - 1) \X MacdRows(n)}

\* comparisons of a number with a possibly-NaN value: False on NaN
LtNan(c, x) == x # None /\ c < x[1]
GtNan(c, x) == x # None /\ c > x[1]

\* SignalGenerator._macd_bb_signal on a window
MacdBbSignal(df) ==
    LET n == Len(df)
        macd == df[n].macd
        macd_signal == df[n].macd_signal
        macd_prev == df[n - 1].macd
        macd_signal_prev == df[n - 1].macd_signal
        bb_upper == df[n].bollinger_upper
        bb_lower == df[n].bollinger_lower
        close == df[n].close
    IN IF n < MinBars THEN 0
       ELSE IF macd > macd_signal /\ macd_prev <= macd_signal_prev
                 /\ LtNan(close, bb_lower)
       THEN 1
       ELSE IF macd < macd_signal /\ macd_prev >= macd_signal_prev
                 /\ GtNan(close, bb_upper)
       THEN -1
       ELSE 0

\* MACDBBStrategy.generate_signals: the series of signals of a frame
GenerateSignalsMacdBb(df) ==
    [i \in 1..Len(df) |->
        LET macd_bullish == /\ df[i].macd > df[i].macd_signal
                            /\ i > 1
                            /\ df[i - 1].macd <= df[i - 1].macd_signal
            macd_bearish == /\ df[i].macd < df[i].macd_signal
                            /\ i > 1
                            /\ df[i - 1].macd >= df[i - 1].macd_signal
            bb_oversold == LtNan(df[i].close, df[i].bollinger_lower)
            bb_overbought == GtNan(df[i].close, df[i].bollinger_upper)
        IN IF macd_bearish /\ bb_overbought THEN -1
           ELSE IF macd_bullish /\ bb_oversold THEN 1
           ELSE 0]

\* both MACD_BB generators are run on the frame
EvaluateMacdBb ==
    /\ frame # <<>>
    /\ online_signal = None
    /\ online_signal' = Some(MacdBbSignal(frame))
    /\ offline_signals' = Some(GenerateSignalsMacdBb(frame))
    /\ UNCHANGED <<traderVars, log, emitVars, serviceVars, modelgenVars, frame,
                   signal_strength>>

----------------------------------------------------------------------------
(* Binary floating point (Python float, numpy float64), for the places    *)
(* where rounding decides the outcome.  A natural number is the sequence  *)
(* of its digits in base 2^LimbBits, least significant first and without  *)
(* leading zeros; a float is sign * m * 2^e with a significand m of       *)
(* exactly MantissaBits binary digits.                                    *)

\* the significand of an IEEE 754 binary64
MantissaBits == 53

\* binary digits per digit of a natural number; divisors stay below 2^17
LimbBits == 14
Base == 2 ^ LimbBits

\* extra quotient digits of a division, in binary digits
DivShift == 2 * LimbBits

RECURSIVE NatLimbs(_)
NatLimbs(n) == IF n = 0 THEN <<>> ELSE <<n % Base>> \o NatLimbs(n \div Base)

RECURSIVE LTrim(_)
LTrim(a) ==
    IF a = <<>> \/ a[Len(a)] # 0 THEN a ELSE LTrim(SubSeq(a, 1, Len(a) - 1))

LimbAt(a, i) == IF i >= 1 /\ i <= Len(a) THEN a[i] ELSE 0

RECURSIVE LAddFrom(_, _, _, _)
LAddFrom(a, b, i, carry) ==
    IF i > Len(a) /\ i > Len(b)
    THEN IF carry = 1 THEN <<1>> ELSE <<>>
    ELSE LET s == LimbAt(a, i) + LimbAt(b, i) + carry
         IN <<s % Base>> \o LAddFrom(a, b, i + 1, s \div Base)

LAdd(a, b) == LAddFrom(a, b, 1, 0)

\* a - b for a >= b
RECURSIVE LSubFrom(_, _, _, _)
LSubFrom(a, b, i, borrow) ==
    IF i > Len(a) THEN <<>>
    ELSE LET s == LimbAt(a, i) - LimbAt(b, i) - borrow
         IN <<s % Base>> \o LSubFrom(a, b, i + 1, IF s < 0 THEN 1 ELSE 0)

LSub(a, b) == LTrim(LSubFrom(a, b, 1, 0))

RECURSIVE LLessFrom(_, _, _)
LLessFrom(a, b, i) ==
    IF i = 0 THEN FALSE
    ELSE IF a[i] # b[i] THEN a[i] < b[i]
    ELSE LLessFrom(a, b, i - 1)

LLess(a, b) ==
    IF Len(a) # Len(b) THEN Len(a) < Len(b) ELSE LLessFrom(a, b, Len(a))

\* quotient and remainder of a by the small number n, from digit i down
RECURSIVE LDivFrom(_, _, _, _)
LDivFrom(a, n, i, rem) ==
    IF i = 0 THEN [q |-> <<>>, r |-> rem]
    ELSE LET cur == rem * Base + a[i]
             rest == LDivFrom(a, n, i - 1, cur % n)
         IN [q |-> Append(rest.q, cur \div n), r |-> rest.r]

LDiv(a, n) ==
    LET res == LDivFrom(a, n, Len(a), 0) IN [q |-> LTrim(res.q), r |-> res.r]

\* the number of binary digits of a
BitLen(a) ==
    IF a = <<>> THEN 0
    ELSE (Len(a) - 1) * LimbBits
         + CHOOSE k \in 1..LimbBits :
              2 ^ (k - 1) <= a[Len(a)] /\ a[Len(a)] < 2 ^ k

\* a * 2^s and a \div 2^s
ShiftLeft(a, s) ==
    LET q == s \div LimbBits
        r == s % LimbBits
    IN LTrim([i \in 1..(Len(a) + q + 1) |->
                 (LimbAt(a, i - q) % (2 ^ (LimbBits - r))) * (2 ^ r)
                 + LimbAt(a, i - q - 1) \div (2 ^ (LimbBits - r))])

ShiftRight(a, s) ==
    LET q == s \div LimbBits
        r == s % LimbBits
    IN IF q >= Len(a) THEN <<>>
       ELSE LTrim([i \in 1..(Len(a) - q) |->
                     LimbAt(a, i + q) \div (2 ^ r)
                     + (LimbAt(a, i + q + 1) % (2 ^ r)) * (2 ^ (LimbBits - r))])

\* binary digit number pos of a, counted from 0
BitOf(a, pos) == (LimbAt(a, pos \div LimbBits + 1) \div (2 ^ (pos % LimbBits))) % 2

\* whether a has a non-zero binary digit below digit number pos
LowBits(a, pos) ==
    \/ \E i \in 1..(pos \div LimbBits) : LimbAt(a, i) # 0
    \/ LimbAt(a, pos \div LimbBits + 1) % (2 ^ (pos % LimbBits)) # 0

FZero == [sign |-> 0, m |-> <<>>, e |-> 0]

\* sign * a * 2^e, rounded to nearest, ties to even; sticky says that the
\* exact value has non-zero digits below those of a
FRound(sign, a, e, sticky) ==
    LET drop == BitLen(a) - MantissaBits
    IN IF a = <<>> THEN FZero
       ELSE IF drop <= 0
       THEN [sign |-> sign, m |-> ShiftLeft(a, -drop), e |-> e + drop]
       ELSE LET kept == ShiftRight(a, drop)
                half == BitOf(a, drop - 1) = 1
                rest == sticky \/ LowBits(a, drop - 1)
                up == half /\ (rest \/ kept[1] % 2 = 1)
                m == IF up THEN LAdd(kept, <<1>>) ELSE kept
            IN IF BitLen(m) > MantissaBits
               THEN [sign |-> sign, m |-> ShiftRight(m, 1), e |-> e + drop + 1]
               ELSE [sign |-> sign, m |-> m, e |-> e + drop]

FNeg(x) == [x EXCEPT !.sign = -x.sign]

\* x + y
FAdd(x, y) ==
    IF x.sign = 0 THEN y
    ELSE IF y.sign = 0 THEN x
    ELSE LET e == IF x.e < y.e THEN x.e ELSE y.e
             a == ShiftLeft(x.m, x.e - e)
             b == ShiftLeft(y.m, y.e - e)
         IN IF x.sign = y.sign THEN FRound(x.sign, LAdd(a, b), e, FALSE)
            ELSE IF a = b THEN FZero
            ELSE IF LLess(a, b) THEN FRound(y.sign, LSub(b, a), e, FALSE)
            ELSE FRound(x.sign, LSub(a, b), e, FALSE)

FSub(x, y) == FAdd(x, FNeg(y))

\* x / n for an integer n, 0 < n < 2^17
FDivInt(x, n) ==
    IF x.sign = 0 THEN FZero
    ELSE LET res == LDiv(ShiftLeft(x.m, DivShift), n)
         IN FRound(x.sign, res.q, x.e - DivShift, res.r # 0)

\* float(i) of an integer
FloatOfInt(i) ==
    FRound(IF i < 0 THEN -1 ELSE IF i > 0 THEN 1 ELSE 0, NatLimbs(Abs(i)), 0, FALSE)

\* the float nearest to the rational x: what a decimal literal denotes,
\* and what float arithmetic yields when no operation before it rounded
FloatOfRat(x) == FDivInt(FloatOfInt(x.n), x.d)

RECURSIVE FSum(_)
FSum(xs) == IF xs = <<>> THEN FZero
            ELSE FAdd(FSum(SubSeq(xs, 1, Len(xs) - 1)), xs[Len(xs)])

----------------------------------------------------------------------------
(* Backtester (modelgen/main.py) *)

\* Backtester.__init__ as ModelGenerator constructs it
initial_capital == 10000

\* trader.fee_pct of the configuration, here binary fractions; the default
\* is 0.001
FeePct == Rat(1, 4)

\* closes of the bars and the values of a signal series
BacktestPrices == {1, 2}
BacktestSignals == {-1, 0, 1}

MaxBacktestBars == 5

RAbs(x) == [n |-> Abs(x.n), d |-> x.d]

\* PerformanceMetrics() with its defaults
DefaultMetrics ==
    [total_trades |-> 0, winning_trades |-> 0, losing_trades |-> 0,
     win_rate |-> Zero, total_pnl_usdt |-> Zero, total_return_pct |-> Zero,
     avg_win |-> Zero, avg_loss |-> Zero, profit_factor |-> Zero,
     sharpe_ratio |-> FZero, max_drawdown_pct |-> Zero,
     max_drawdown_duration_days |-> 0]

\* Backtester._calculate_sharpe on a list of floats.  numpy's std() is the
\* square root of the mean of the squared deviations from mean(); it is 0
\* exactly when every deviation is 0 (their squares do not underflow for
\* the values here).  A non-zero result is returned as the operands of
\* (mean / std) * 252 ** 0.5.
CalculateSharpe(rets) ==
    LET n == Len(rets)
        mean == FDivInt(FSum(rets), n)
        deviations == [i \in 1..n |-> FSub(rets[i], mean)]
        std_is_zero == \A i \in 1..n : deviations[i].sign = 0
    IN IF n = 0 THEN FZero
       ELSE IF n < 2 \/ std_is_zero THEN FZero
       ELSE [mean |-> mean, deviations |-> deviations]

\* Backtester._calculate_drawdown: max_drawdown of the close column
RECURSIVE RunningMax(_, _)
RunningMax(df_close, i) ==
    IF i = 1 THEN df_close[1]
    ELSE LET before == RunningMax(df_close, i - 1)
         IN IF df_close[i] > before THEN df_close[i] ELSE before

RECURSIVE RMinOf(_, _)
RMinOf(f, i) ==
    IF i = 1 THEN f[1]
    ELSE LET before == RMinOf(f, i - 1)
         IN IF RLt(f[i], before) THEN f[i] ELSE before

CalculateDrawdown(df_close) ==
    IF Len(df_close) < 2 THEN Zero
    ELSE LET drawdown_pct ==
                 [i \in 1..Len(df_close) |->
                     RMul(Rat(df_close[i] - RunningMax(df_close, i),
                              RunningMax(df_close, i)), FromInt(100))]
         IN RAbs(RMinOf(drawdown_pct, Len(df_close)))

\* the pairing loop of calculate_metrics, from index i (from 1)
RECURSIVE PairTrades(_, _)
PairTrades(ts, i) ==
    IF i >= Len(ts) THEN <<>>
    ELSE IF ts[i].type = "entry" /\ ts[i + 1].type = "exit"
    THEN LET pnl == RSub(ts[i + 1].capital, ts[i].capital)
         IN <<[pnl |-> pnl,
               pnl_pct |-> RMul(RDiv(pnl, ts[i].capital), FromInt(100))]>>
            \o PairTrades(ts, i + 2)
    ELSE PairTrades(ts, i + 1)

RECURSIVE RSum(_)
RSum(xs) == IF xs = <<>> THEN Zero ELSE RAdd(xs[1], RSum(Tail(xs)))

\* profit_factor capped at 1000 when there is no loss to divide by
ProfitFactorCapped(wins, losses) ==
    IF RSum(losses) # Zero THEN RAbs(RDiv(RSum(wins), RSum(losses)))
    ELSE IF wins # <<>> THEN FromInt(1000) ELSE Zero

\* profit_factor of calculate_metrics
ProfitFactor(wins, losses) ==
    IF RSum(losses) # Zero THEN RAbs(RDiv(RSum(wins), RSum(losses)))
    ELSE Zero

\* winning_trades with the break-even round trips counted as wins
WinningTradesWithBreakEven(paired_trades) ==
    Cardinality({i \in DOMAIN paired_trades : RGe(paired_trades[i].pnl, Zero)})

\* winning_trades of calculate_metrics
WinningTrades(paired_trades) ==
    Cardinality({i \in DOMAIN paired_trades : RGt(paired_trades[i].pnl, Zero)})

\* calculate_metrics after the pairing loop
MetricsOf(paired_trades, df_close) ==
    LET total_trades == Len(paired_trades)
        winning_trades == WinningTrades(paired_trades)
        pnls == [i \in 1..total_trades |-> paired_trades[i].pnl]
        wins == SelectSeq(pnls, LAMBDA p : RGt(p, Zero))
        losses == SelectSeq(pnls, LAMBDA p : RLt(p, Zero))
        returns_list == [i \in 1..total_trades |-> paired_trades[i].pnl_pct]
    IN IF paired_trades = <<>> THEN DefaultMetrics
       ELSE [total_trades |-> total_trades,
             winning_trades |-> winning_trades,
             losing_trades |-> total_trades - winning_trades,
             win_rate |-> Rat(winning_trades, total_trades),
             total_pnl_usdt |-> RSum(pnls),
             total_return_pct |->
                 RMul(RSub(Rat(df_close[Len(df_close)], df_close[1]), One),
                      FromInt(100)),
             avg_win |-> IF wins # <<>> THEN RDiv(RSum(wins), FromInt(Len(wins)))
                         ELSE Zero,
             avg_loss |-> IF losses # <<>>
                          THEN RDiv(RSum(losses), FromInt(Len(losses)))
                          ELSE Zero,
             profit_factor |-> ProfitFactor(wins, losses),
             sharpe_ratio |->
                 CalculateSharpe([i \in 1..total_trades |->
                                     FloatOfRat(returns_list[i])]),
             max_drawdown_pct |-> CalculateDrawdown(df_close),
             max_drawdown_duration_days |-> 0]

\* the metrics that close a trailing entry at the last bar
CalculateMetricsClosingLast(ts, df_close) ==
    MetricsOf(PairTrades(IF ts # <<>> /\ ts[Len(ts)].type = "entry"
                         THEN Append(ts, [type |-> "exit",
                                          price |-> df_close[Len(df_close)],
                                          capital |-> ts[Len(ts)].capital,
                                          fee |-> Zero])
                         ELSE ts, 1), df_close)

\* Backtester.calculate_metrics
CalculateMetrics(ts, df_close) == MetricsOf(PairTrades(ts, 1), df_close)

\* one iteration of the loop of Backtester.backtest that lets a long
\* position buy again
BacktestBarPyramiding(price, signal) ==
    /\ metrics = None
    /\ Len(closes) < MaxBacktestBars
    /\ closes' = Append(closes, price)
    /\ signals_in' = Append(signals_in, signal)
    /\ IF closes # <<>> /\ signal = 1
       THEN LET fee == RMul(capital, FeePct)
            IN /\ bt_position' = RDiv(RSub(capital, fee), FromInt(price))
               /\ trades' = Append(trades, [type |-> "entry",
                                            price |-> price,
                                            capital |-> capital,
                                            fee |-> fee])
               /\ UNCHANGED capital
       ELSE UNCHANGED <<capital, bt_position, trades>>
    /\ UNCHANGED <<traderVars, log, emitVars, serviceVars, generatorVars,
                   metrics, sharpeVars, generationVars, featureVars>>

\* one bar of the frame: the first is skipped (range(1, len(df))), each
\* later one is an iteration of the loop of Backtester.backtest, with the
\* fee_pct the Backtester was constructed with
BacktestStep(price, signal, bt_fee_pct) ==
    /\ metrics = None
    /\ Len(closes) < MaxBacktestBars
    /\ closes' = Append(closes, price)
    /\ signals_in' = Append(signals_in, signal)
    /\ IF closes # <<>> /\ signal = 1 /\ bt_position = Zero
       THEN LET fee == RMul(capital, bt_fee_pct)
            IN /\ bt_position' = RDiv(RSub(capital, fee), FromInt(price))
               /\ trades' = Append(trades, [type |-> "entry",
                                            price |-> price,
                                            capital |-> capital,
                                            fee |-> fee])
               /\ UNCHANGED capital
       ELSE IF closes # <<>> /\ signal = -1 /\ RGt(bt_position, Zero)
       THEN LET value == RMul(bt_position, FromInt(price))
                fee == RMul(value, bt_fee_pct)
            IN /\ capital' = RSub(value, fee)
               /\ trades' = Append(trades, [type |-> "exit",
                                            price |-> price,
                                            capital |-> RSub(value, fee),
                                            fee |-> fee])
               /\ bt_position' = Zero
       ELSE UNCHANGED <<capital, bt_position, trades>>
    /\ UNCHANGED <<traderVars, log, emitVars, serviceVars, generatorVars,
                   metrics, sharpeVars, generationVars, featureVars>>

\* a bar of the backtest with the fee of the model generator's Backtester
BacktestBar(price, signal) == BacktestStep(price, signal, FeePct)

\* a bar of the backtest of a Backtester configured with trader.fee_pct 0
BacktestBarNoFee(price, signal) == BacktestStep(price, signal, Zero)

\* the end of Backtester.backtest: the metrics of the trades
BacktestMetrics ==
    /\ metrics = None
    /\ metrics' = Some(CalculateMetrics(trades, closes))
    /\ UNCHANGED <<traderVars, log, emitVars, serviceVars, generatorVars,
                   closes, signals_in, capital, bt_position, trades,
                   sharpeVars, generationVars, featureVars>>

\* the float lists _calculate_sharpe is given: the percentage returns of
\* up to MaxReturns round trips
MaxReturns == 3
ReturnValues ==
    {FloatOfRat(Rat(1, 10)), FloatOfRat(Rat(-1, 5)), FloatOfInt(10),
     FloatOfRat(Rat(7, 10)), FloatOfRat(Rat(3, 10))}
ReturnLists == UNION {[1..n -> ReturnValues] : n \in 0..MaxReturns}

\* _calculate_sharpe on a list of returns
Sharpe(rets) ==
    /\ returns = None
    /\ returns' = Some(rets)
    /\ sharpe_ratio' = Some(CalculateSharpe(rets))
    /\ UNCHANGED <<traderVars, log, emitVars, serviceVars, generatorVars,
                   backtestVars, generationVars, featureVars>>

----------------------------------------------------------------------------
(* ModelGenerator.generate_models (modelgen/main.py) *)

\* the strategies tested, in this order
StrategyNames == <<"EMA_RSI_v1", "MACD_BB_v1">>

\* the modelgen section of the configuration: the defaults of
\* meets_criteria, one with every minimum at 0, and one with the default
\* min_profit_factor as its only minimum
DefaultCriteria ==
    [min_sharpe_ratio |-> Rat(6, 5), min_win_rate |-> Rat(9, 20),
     min_profit_factor |-> Rat(3, 2), max_drawdown_pct |-> Rat(3, 20)]
LaxCriteria ==
    [min_sharpe_ratio |-> Zero, min_win_rate |-> Zero,
     min_profit_factor |-> Zero, max_drawdown_pct |-> Rat(3, 20)]
ProfitFactorCriteria ==
    [LaxCriteria EXCEPT !.min_profit_factor = Rat(3, 2)]
ModelgenConfigs == {DefaultCriteria, LaxCriteria, ProfitFactorCriteria}

\* the metrics a backtest hands to meets_criteria, by the fields it
\* reads: those of a backtest without a round trip, and those of
\* backtests with one
CandidateMetrics ==
    {[total_trades |-> 0, sharpe_ratio |-> Zero, win_rate |-> Zero,
      profit_factor |-> Zero, max_drawdown_pct |-> Zero]}
    \cup
    [total_trades : {1}, sharpe_ratio : {One, Rat(6, 5), FromInt(2)},
     win_rate : {Rat(2, 5), Rat(9, 20)},
     profit_factor : {Zero, Rat(3, 2)},
     max_drawdown_pct : {Rat(3, 20), Rat(1, 5)}]

\* ModelGenerator.meets_criteria
MeetsCriteria(config, m) ==
    /\ RGe(m.sharpe_ratio, config.min_sharpe_ratio)
    /\ RGe(m.win_rate, config.min_win_rate)
    /\ RGe(m.profit_factor, config.min_profit_factor)
    /\ RLe(RAbs(m.max_drawdown_pct), config.max_drawdown_pct)
    /\ m.total_trades > 0

\* the comparison that also replaces the best on an equal Sharpe ratio
BetterOrEqual(m, best_metrics) ==
    RGe(m.sharpe_ratio, best_metrics.sharpe_ratio)

\* metrics.sharpe_ratio > best_metrics.sharpe_ratio
Better(m, best_metrics) ==
    RGt(m.sharpe_ratio, best_metrics.sharpe_ratio)

\* the loop over the strategies: the index of best_strategy after the
\* first k strategies, 0 for None
RECURSIVE BestStrategy(_, _, _)
BestStrategy(config, ms, k) ==
    IF k = 0 THEN 0
    ELSE LET best == BestStrategy(config, ms, k - 1)
         IN IF MeetsCriteria(config, ms[k])
               /\ (best = 0 \/ Better(ms[k], ms[best]))
            THEN k ELSE best

\* a Model.create that inserts the row as 'active'
ModelRowActive(name, performance) ==
    [id |-> Len(models) + 1, name |-> name, version |-> 1,
     model_type |-> "rule-based",
     config |-> Str(IF name = StrategyNames[1] THEN EmaRsiConfigText
                                               ELSE MacdBbConfigText),
     performance |-> performance, status |-> "active"]

\* the row Model.create inserts
ModelRow(name, performance) ==
    [id |-> Len(models) + 1, name |-> name, version |-> 1,
     model_type |-> "rule-based",
     config |-> Str(IF name = StrategyNames[1] THEN EmaRsiConfigText
                                               ELSE MacdBbConfigText),
     performance |-> performance, status |-> "approved"]

\* generate_models with candles in the store: both strategies are tested
\* and the best one that meets the criteria is created
GenerateModels(config, ms) ==
    /\ candidates = None
    /\ candidates' = Some([config |-> config, metrics |-> ms])
    /\ LET best == BestStrategy(config, ms, Len(ms))
       IN models' = IF best # 0
                    THEN Append(models, ModelRow(StrategyNames[best], ms[best]))
                    ELSE models
    /\ UNCHANGED <<traderVars, log, emitVars, serviceVars, generatorVars,
                   backtestVars, sharpeVars, featureVars>>

\* the Sharpe ratios a backtest's metrics may carry into meets_criteria:
\* 0 where _calculate_sharpe returned 0, and values below, at and above
\* the default minimum where it returned (mean / std) * 252 ** 0.5
NonZeroSharpe == {FromInt(-1), Rat(6, 5), FromInt(2)}
SharpeRatios(m) == IF m.sharpe_ratio = FZero THEN {Zero} ELSE NonZeroSharpe

\* generate_models on the metrics of the backtest of the first strategy,
\* the second strategy having made no round trip
GenerateModelsBacktested(config, sharpe) ==
    /\ metrics # None
    /\ sharpe \in SharpeRatios(metrics[1])
    /\ GenerateModels(config,
                      <<[metrics[1] EXCEPT !.sharpe_ratio = sharpe],
                        [DefaultMetrics EXCEPT !.sharpe_ratio = Zero]>>)

\* generate_models when Model.create raises: main() logs and re-raises
GenerateModelsCreateFails(config, ms) ==
    /\ candidates = None
    /\ BestStrategy(config, ms, Len(ms)) # 0
    /\ candidates' = Some([config |-> config, metrics |-> ms])
    /\ UNCHANGED <<traderVars, log, emitVars, serviceVars, generatorVars,
                   backtestVars, sharpeVars, featureVars, models>>

\* generate_models without candles in the store: it returns at once
GenerateModelsNoData(config) ==
    /\ candidates = None
    /\ candidates' = Some([config |-> config, metrics |-> <<>>])
    /\ UNCHANGED <<traderVars, log, emitVars, serviceVars, generatorVars,
                   backtestVars, sharpeVars, featureVars, models>>

----------------------------------------------------------------------------
(* The indicators (common/indicators.py) and the feature snapshot *)

\* the lengths of the moving averages
EmaLengths == [ema_9 |-> 9, ema_21 |-> 21, ema_50 |-> 50, ema_200 |-> 200]
SmaLength == 20

\* closes of the candles: all but the last two are FillerClose
FillerClose == 100
CandleCloses == {99, 100, 101}
MaxCandles == 23

CloseSeries(n) ==
    IF n = 1 THEN {<<c>> : c \in CandleCloses}
    ELSE {[i \in 1..n |-> IF i = n THEN last[2]
                          ELSE IF i = n - 1 THEN last[1] ELSE FillerClose] :
            last \in CandleCloses \X CandleCloses}

\* indicators.ema: series.ewm(span=length, adjust=False).mean() of the
\* first n rows, y[1] = x[1] and y[i] = (1 - a) * y[i-1] + a * x[i] with
\* a = 2 / (length + 1); no row is NaN
RECURSIVE Ema(_, _, _)
Ema(series, length, n) ==
    IF n = 1 THEN <<Some(FromInt(series[1]))>>
    ELSE LET before == Ema(series, length, n - 1)
         IN Append(before,
                   Some(RDiv(RAdd(FromInt(2 * series[n]),
                                  RMul(FromInt(length - 1), before[n - 1][1])),
                             FromInt(length + 1))))

RECURSIVE SumFrom(_, _, _)
SumFrom(series, from, to) ==
    IF from > to THEN 0 ELSE series[from] + SumFrom(series, from + 1, to)

\* indicators.sma at row i: series.rolling(window=length).mean(), NaN
\* (None) until the window is full
SmaAt(series, length, i) ==
    IF i < length THEN None
    ELSE Some(Rat(SumFrom(series, i - length + 1, i), length))

\* delta.where(delta > 0, 0) and -delta.where(delta < 0, 0) at row i: the
\* first delta is NaN, fails both comparisons and is replaced by 0
GainAt(series, i) ==
    IF i > 1 /\ series[i] > series[i - 1] THEN series[i] - series[i - 1] ELSE 0

LossAt(series, i) ==
    IF i > 1 /\ series[i] < series[i - 1] THEN series[i - 1] - series[i] ELSE 0

\* the two columns whose rolling means rsi divides
GainColumn(series) == [i \in DOMAIN series |-> GainAt(series, i)]

LossColumn(series) == [i \in DOMAIN series |-> LossAt(series, i)]

\* indicators.rsi at row i: gain and loss are rolling means over length
\* rows, NaN (None) until the window is full; rs = gain / loss is a float
\* division, so a zero loss gives inf (rsi 100) when gain > 0 and NaN
\* when gain is zero too
RsiAt(series, length, i) ==
    IF i < length THEN None
    ELSE LET gain == Rat(SumFrom(GainColumn(series), i - length + 1, i), length)
             loss == Rat(SumFrom(LossColumn(series), i - length + 1, i), length)
         IN IF loss = Zero
            THEN IF gain = Zero THEN None ELSE Some(FromInt(100))
            ELSE Some(RSub(FromInt(100),
                           RDiv(FromInt(100), RAdd(One, RDiv(gain, loss)))))

\* the ema, sma and rsi columns that process_candle and FeatureEngine add
IndicatorColumns(series) ==
    [ema_9 |-> Ema(series, EmaLengths.ema_9, Len(series)),
     ema_21 |-> Ema(series, EmaLengths.ema_21, Len(series)),
     ema_50 |-> Ema(series, EmaLengths.ema_50, Len(series)),
     ema_200 |-> Ema(series, EmaLengths.ema_200, Len(series)),
     bollinger_middle |-> [i \in DOMAIN series |-> SmaAt(series, SmaLength, i)],
     rsi_14 |-> [i \in DOMAIN series |-> RsiAt(series, RsiLength, i)]]

\* the candles are fetched and their indicator columns computed
CalculateIndicators(series) ==
    /\ indicators = None
    /\ candle_closes' = series
    /\ indicators' = Some(IndicatorColumns(series))
    /\ UNCHANGED <<traderVars, log, emitVars, serviceVars, generatorVars,
                   backtestVars, sharpeVars, generationVars, features>>

\* FeatureCalculator.calculate_features, called by emit_signal for a
\* frame that process_candle accepted: the last value of every column,
\* a NaN staying a NaN
CalculateFeatures ==
    /\ indicators # None
    /\ Len(candle_closes) >= MinBars
    /\ features = None
    /\ features' =
          Some([col \in DOMAIN indicators[1] |->
                   indicators[1][col][Len(candle_closes)]])
    /\ UNCHANGED <<traderVars, log, emitVars, serviceVars, generatorVars,
                   backtestVars, sharpeVars, generationVars, candle_closes,
                   indicators>>

\* nothing of the model generator has run
InitModelgen ==
    /\ closes = <<>>
    /\ signals_in = <<>>
    /\ capital = FromInt(initial_capital)
    /\ bt_position = Zero
    /\ trades = <<>>
    /\ metrics = None
    /\ returns = None
    /\ sharpe_ratio = None
    /\ candidates = None
    /\ models = <<>>
    /\ candle_closes = <<>>
    /\ indicators = None
    /\ features = None

----------------------------------------------------------------------------
(* The RiskManager called directly *)

RiskCheck(order) ==
    LET result == CheckRiskLimits(order)
    IN /\ check_result' = Some([allowed |-> result.allowed,
                                reason |-> result.reason,
                                order |-> order])
       /\ log' = <<>>
       /\ UNCHANGED <<mode, trader_config, RiskState, Store>>

RiskUpdate(pnl) ==
    /\ Len(pnl_log) < MaxUpdates
    /\ UpdatePnl(pnl)
    /\ check_result' = None
    /\ log' = <<>>
    /\ UNCHANGED <<mode, trader_config, Store>>

RiskReset ==
    /\ pnl_log # <<>>
    /\ ResetDaily
    /\ check_result' = None
    /\ log' = <<>>
    /\ UNCHANGED <<mode, trader_config, Store>>

----------------------------------------------------------------------------
(* Specifications *)

InitWith(configs) ==
    /\ mode \in Modes
    /\ trader_config \in configs
    /\ daily_pnl = Zero
    /\ consecutive_losses = 0
    /\ orders = <<>>
    /\ positions = <<>>
    /\ pnl_log = <<>>
    /\ check_result = None
    /\ log = <<"Trader initialized">>
    /\ clock = 0
    /\ max_signals_per_minute = DefaultSignalLimit
    /\ last_signal_time = None
    /\ signal_count = 0
    /\ model = None
    /\ emitted = 0
    /\ dropped = {}
    /\ signals = <<>>
    /\ service = "trader"
    /\ pc = "init_db"
    /\ exit_path = "none"
    /\ sleep_seconds = 0
    /\ failure = "none"
    /\ batch = <<>>
    /\ batch_pos = 0
    /\ processed = {}
    /\ db_pool = "none"
    /\ redis_client = "none"
    /\ http_client = "none"
    /\ candles = <<>>
    /\ active_model = None
    /\ frame = <<>>
    /\ online_signal = None
    /\ offline_signals = None
    /\ signal_strength = None
    /\ InitModelgen

Init == InitWith(Configs)

\* the Trader service: signals are executed one at a time
Next ==
    /\ \E signal_data \in Signals : ExecuteSignal(signal_data)
    /\ UNCHANGED <<emitVars, serviceVars, strategyVars>>

Spec == Init /\ [][Next]_vars

\* the Trader under the configurations and under one that tolerates no loss
InitLockout == InitWith(Configs \cup {NoLossConfig})

SpecLockout == InitLockout /\ [][Next]_vars

\* the Trader service with a store that may raise in any call
NextStoreFails ==
    /\ \/ \E signal_data \in Signals : ExecuteSignal(signal_data)
       \/ \E signal_data \in Signals, call \in {"save_order", "update_position"} :
             ExecuteSignalStoreFails(signal_data, call)
    /\ UNCHANGED <<emitVars, serviceVars, strategyVars>>

\* ... of the paper Trader with the default configuration
InitStoreFails ==
    /\ Init
    /\ mode = TradingMode.PAPER
    /\ trader_config = DefaultConfig

SpecStoreFails == InitStoreFails /\ [][NextStoreFails]_vars

\* the RiskManager under any sequence of calls of its three methods
NextRisk ==
    \/ \E q \in CheckQuantities, p \in CheckPrices :
           RiskCheck(Order(1, OrderSide.BUY, q, p)) /\ UNCHANGED <<emitVars, serviceVars, strategyVars>>
    \/ \E pnl \in PnlValues : RiskUpdate(pnl) /\ UNCHANGED <<emitVars, serviceVars, strategyVars>>
    \/ RiskReset /\ UNCHANGED <<emitVars, serviceVars, strategyVars>>

SpecRisk == Init /\ [][NextRisk]_vars

\* the executor with its model loaded, emit_signal called at any times
InitEmit ==
    /\ mode = TradingMode.PAPER
    /\ trader_config = DefaultConfig
    /\ daily_pnl = Zero
    /\ consecutive_losses = 0
    /\ orders = <<>>
    /\ positions = <<>>
    /\ pnl_log = <<>>
    /\ check_result = None
    /\ log = <<"Active model loaded", "Executor initialized">>
    /\ clock = 0
    /\ max_signals_per_minute \in SignalLimits
    /\ last_signal_time = None
    /\ signal_count = 0
    /\ model = Some(ActiveModel)
    /\ emitted = 0
    /\ dropped = {}
    /\ signals = <<>>
    /\ service = "executor"
    /\ pc = "process"
    /\ exit_path = "none"
    /\ sleep_seconds = 0
    /\ failure = "none"
    /\ batch = <<1>>
    /\ batch_pos = 1
    /\ processed = {}
    /\ db_pool = "open"
    /\ redis_client = "open"
    /\ http_client = "none"
    /\ candles = <<[symbol |-> Symbol]>>
    /\ active_model = Some(ActiveModel)
    /\ frame = <<>>
    /\ online_signal = None
    /\ offline_signals = None
    /\ signal_strength = None
    /\ InitModelgen

NextEmit ==
    \E signal_value \in SignalValues, price \in ClosePrices,
       elapsed \in ElapsedSeconds :
        /\ emitted < MaxEmits
        /\ EmitSignal(signal_value, price, elapsed)
        /\ UNCHANGED <<traderVars, serviceVars, strategyVars>>

SpecEmit == InitEmit /\ [][NextEmit]_vars

\* a service from the construction of its object on
InitService ==
    /\ mode \in Modes
    /\ trader_config = DefaultConfig
    /\ daily_pnl = Zero
    /\ consecutive_losses = 0
    /\ orders = <<>>
    /\ positions = <<>>
    /\ pnl_log = <<>>
    /\ check_result = None
    /\ log = <<>>
    /\ clock = 0
    /\ max_signals_per_minute = DefaultSignalLimit
    /\ last_signal_time = None
    /\ signal_count = 0
    /\ model = None
    /\ emitted = 0
    /\ dropped = {}
    /\ signals = <<>>
    /\ service \in Services
    /\ service = "executor" => mode = TradingMode.PAPER
    /\ pc = "init_db"
    /\ exit_path = "none"
    /\ sleep_seconds = 0
    /\ failure = "none"
    /\ batch = <<>>
    /\ batch_pos = 0
    /\ processed = {}
    /\ db_pool = "none"
    /\ redis_client = "none"
    /\ http_client = "none"
    /\ candles = <<>>
    /\ active_model = None
    /\ frame = <<>>
    /\ online_signal = None
    /\ offline_signals = None
    /\ signal_strength = None
    /\ InitModelgen

NextService ==
    \/ DbConnect
    \/ DbConnectFails
    \/ RedisConnect
    \/ LiveTraderInit
    \/ ActivateModel
    \/ LoadActiveModel
    \/ LoadActiveModelFails
    \/ \E path \in {"shutdown", "cancelled"} : Cancel(path)
    \/ Cleanup
    \/ Read
    \/ ReadFails
    \/ ProcessSignal
    \/ ProcessSignalStoreFails
    \/ \E signal_value \in CandleSignalValues, price \in ClosePrices,
          elapsed \in ElapsedSeconds : ProcessCandle(signal_value, price, elapsed)
    \/ \E kind \in {"bus", "store", "evaluation"} : ProcessCandleFails(kind)
    \/ Wake
    \/ \E signal_data \in ListenSignals : PublishSignal(signal_data, MaxStream)
    \/ \E symbol \in CandleSymbols : PublishCandle(symbol)

SpecService == InitService /\ [][NextService]_vars

\* the signal generators applied to feature frames of 1..MaxBars rows
InitStrategy ==
    /\ Init
    /\ mode = TradingMode.PAPER
    /\ trader_config = DefaultConfig

NextStrategy ==
    \/ \E n \in 1..MaxBars : \E df \in Frames(n) : BuildFrame(df)
    \/ Evaluate
    \/ \E signal_value \in SignalValues : EvaluateStrength(signal_value)

SpecStrategy == InitStrategy /\ [][NextStrategy]_vars

\* the MACD_BB generators applied to feature frames of 1..MaxBars rows
NextMacdBb ==
    \/ \E n \in 1..MaxBars : \E df \in MacdFrames(n) : BuildFrame(df)
    \/ EvaluateMacdBb

SpecMacdBb == InitStrategy /\ [][NextMacdBb]_vars

\* a backtest of up to MaxBacktestBars bars
NextBacktest ==
    \/ \E price \in BacktestPrices, signal \in BacktestSignals :
          BacktestBar(price, signal)
    \/ BacktestMetrics

SpecBacktest == InitStrategy /\ [][NextBacktest]_vars

\* a backtest followed by the selection of generate_models
NextSelection ==
    \/ \E price \in BacktestPrices, signal \in BacktestSignals :
          BacktestBar(price, signal)
    \/ BacktestMetrics
    \/ \E config \in ModelgenConfigs, sharpe \in {Zero} \cup NonZeroSharpe :
          GenerateModelsBacktested(config, sharpe)

SpecSelection == InitStrategy /\ [][NextSelection]_vars

\* backtests of a Backtester without fee
NextBacktestNoFee ==
    \/ \E price \in BacktestPrices, signal \in BacktestSignals :
          BacktestBarNoFee(price, signal)
    \/ BacktestMetrics

SpecBacktestNoFee == InitStrategy /\ [][NextBacktestNoFee]_vars

\* _calculate_sharpe applied to lists of up to MaxReturns returns
NextSharpe == \E rets \in ReturnLists : Sharpe(rets)

SpecSharpe == InitStrategy /\ [][NextSharpe]_vars

\* one run of the model generator
NextGeneration ==
    \/ \E config \in ModelgenConfigs :
       \E ms \in CandidateMetrics \X CandidateMetrics :
          \/ GenerateModels(config, ms)
          \/ GenerateModelsCreateFails(config, ms)
    \/ \E config \in ModelgenConfigs : GenerateModelsNoData(config)

SpecGeneration == InitStrategy /\ [][NextGeneration]_vars

\* the indicators of up to MaxCandles candles and their snapshot
NextFeatures ==
    \/ \E n \in 1..MaxCandles : \E series \in CloseSeries(n) :
          CalculateIndicators(series)
    \/ CalculateFeatures

SpecFeatures == InitStrategy /\ [][NextFeatures]_vars

\* the Trader in shadow mode, listening, while signals of one kind pile up
\* on stream:signals; no error and no shutdown happens
BacklogSignals == {[signal_type |-> SignalType.BUY, price |-> 100, model_id |-> 1]}

InitBacklog ==
    /\ mode = TradingMode.SHADOW
    /\ trader_config = DefaultConfig
    /\ daily_pnl = Zero
    /\ consecutive_losses = 0
    /\ orders = <<>>
    /\ positions = <<>>
    /\ pnl_log = <<>>
    /\ check_result = None
    /\ log = <<"OKX Trader initialized", "Trader initialized">>
    /\ clock = 0
    /\ max_signals_per_minute = DefaultSignalLimit
    /\ last_signal_time = None
    /\ signal_count = 0
    /\ model = None
    /\ emitted = 0
    /\ dropped = {}
    /\ signals = <<>>
    /\ service = "trader"
    /\ pc = "read"
    /\ exit_path = "none"
    /\ sleep_seconds = 0
    /\ failure = "none"
    /\ batch = <<>>
    /\ batch_pos = 0
    /\ processed = {}
    /\ db_pool = "open"
    /\ redis_client = "open"
    /\ http_client = "open"
    /\ candles = <<>>
    /\ active_model = None
    /\ frame = <<>>
    /\ online_signal = None
    /\ offline_signals = None
    /\ signal_strength = None
    /\ InitModelgen

NextBacklog ==
    \/ Read
    \/ ProcessSignal
    \/ Wake
    \/ \E signal_data \in BacklogSignals : PublishSignal(signal_data, MaxBacklog)

\* the event loop runs the listener: a read returns (it blocks 5 s at
\* most), an evaluation completes and a sleep ends
FairSpecBacklog ==
    /\ InitBacklog
    /\ [][NextBacklog]_vars
    /\ WF_vars(Read)
    /\ WF_vars(ProcessSignal)
    /\ WF_vars(Wake)

\* the executor from the construction of its object on
InitExecutor ==
    /\ InitService
    /\ service = "executor"

NextExecutor ==
    \/ DbConnect
    \/ DbConnectFails
    \/ RedisConnect
    \/ ActivateModel
    \/ LoadActiveModel
    \/ LoadActiveModelFails
    \/ \E path \in {"shutdown", "cancelled"} : Cancel(path)
    \/ Cleanup
    \/ Read
    \/ ReadFails
    \/ \E signal_value \in CandleSignalValues, price \in ClosePrices,
          elapsed \in ElapsedSeconds : ProcessCandle(signal_value, price, elapsed)
    \/ \E kind \in {"bus", "store", "evaluation"} : ProcessCandleFails(kind)
    \/ Wake
    \/ \E symbol \in CandleSymbols : PublishCandle(symbol)

\* the sleep of the wait loop ends and load_active_model is called
FairSpecExecutor ==
    /\ InitExecutor
    /\ [][NextExecutor]_vars
    /\ WF_vars(LoadActiveModel)

\* the executor starting and waiting for a model while the generator
\* runs; nothing outside the services writes to table models
NextPipeline ==
    \/ DbConnect
    \/ DbConnectFails
    \/ RedisConnect
    \/ LoadActiveModel
    \/ LoadActiveModelFails
    \/ \E path \in {"shutdown", "cancelled"} : Cancel(path)
    \/ Cleanup
    \/ \E config \in ModelgenConfigs :
       \E ms \in CandidateMetrics \X CandidateMetrics :
          GenerateModels(config, ms)

InitPipeline ==
    /\ InitExecutor
    /\ mode = TradingMode.PAPER

SpecPipeline == InitPipeline /\ [][NextPipeline]_vars

\* the executor with an active model of any of the configurations
NextDispatch ==
    \/ DbConnect
    \/ RedisConnect
    \/ \E config \in ModelConfigs : ActivateModelConfigured(config)
    \/ LoadActiveModel
    \/ Read
    \/ \E signal_value \in CandleSignalValues, price \in ClosePrices,
          elapsed \in ElapsedSeconds : ProcessCandle(signal_value, price, elapsed)
    \/ Wake
    \/ \E symbol \in CandleSymbols : PublishCandle(symbol)

SpecDispatch == InitPipeline /\ [][NextDispatch]_vars

----------------------------------------------------------------------------
(* Properties of the RiskManager, checked under SpecRisk *)

ReasonSize == "Order size exceeds max"
ReasonDailyLoss == "Daily loss exceeds limit"
ReasonStreak == "Consecutive losses exceeds limit"

\* C1: check_risk_limits allows an order iff quantity*price <=
\* max_position_size and daily_pnl >= -max_daily_loss and consecutive_losses <
\* max_consecutive_losses, and the reason of a denial is that of the first
\* violated limit in the order size, daily loss, consecutive losses.
C1_CheckAllowsIffWithinLimits ==
    [][check_result' # None =>
        LET r == check_result'[1]
            sizeOk == RLe(RMul(r.order.quantity, r.order.price), max_position_size)
            lossOk == RGe(daily_pnl, RNeg(max_daily_loss))
            streakOk == consecutive_losses < max_consecutive_losses
        IN /\ r.allowed <=> (sizeOk /\ lossOk /\ streakOk)
           /\ r.allowed => r.reason = ""
           /\ ~sizeOk => r.reason = ReasonSize
           /\ (sizeOk /\ ~lossOk) => r.reason = ReasonDailyLoss
           /\ (sizeOk /\ lossOk /\ ~streakOk) => r.reason = ReasonStreak]_vars

\* a denial for the daily loss returned while the loss streak is at its limit too
C1_Witness ==
    /\ check_result # None
    /\ ~check_result[1].allowed
    /\ check_result[1].reason = ReasonDailyLoss
    /\ RLt(daily_pnl, RNeg(max_daily_loss))
    /\ consecutive_losses >= max_consecutive_losses

\* C3: once consecutive_losses has reached max_consecutive_losses every order
\* is denied whatever its size; an update_pnl with a non-negative pnl sets
\* consecutive_losses to 0, and with the counter at 0 no order is denied for
\* the consecutive-loss limit.
C3_StreakLockoutUntilWin ==
    [][/\ (check_result' # None /\ consecutive_losses >= max_consecutive_losses)
            => ~check_result'[1].allowed
       /\ (Len(pnl_log') = Len(pnl_log) + 1 /\ RGe(pnl_log'[Len(pnl_log')], Zero))
            => consecutive_losses' = 0
       /\ (check_result' # None /\ consecutive_losses = 0)
            => check_result'[1].reason # ReasonStreak]_vars

\* an order is allowed after a streak that had reached the limit was ended by
\* a break-even update
C3_Witness ==
    /\ check_result # None
    /\ check_result[1].allowed
    /\ Len(pnl_log) = max_consecutive_losses + 1
    /\ \A i \in 1..max_consecutive_losses : RLt(pnl_log[i], Zero)
    /\ pnl_log[Len(pnl_log)] = Zero
    /\ consecutive_losses = 0

RECURSIVE SumPnl(_)
SumPnl(s) == IF s = <<>> THEN Zero ELSE RAdd(SumPnl(SubSeq(s, 1, Len(s) - 1)), s[Len(s)])

RECURSIVE TrailingLosses(_)
TrailingLosses(s) ==
    IF s = <<>> \/ ~RLt(s[Len(s)], Zero) THEN 0
    ELSE 1 + TrailingLosses(SubSeq(s, 1, Len(s) - 1))

\* C4: update_pnl(pnl) adds pnl to daily_pnl and sets consecutive_losses to
\* its previous value plus 1 when pnl < 0 and to 0 otherwise; after any
\* sequence of updates daily_pnl is the sum of the pnl values since the last
\* reset and consecutive_losses the length of the trailing run of negative ones.
C4_UpdatePnlAccumulates ==
    /\ daily_pnl = SumPnl(pnl_log)
    /\ consecutive_losses = TrailingLosses(pnl_log)

\* a break-even update right after a loss, following an earlier update
C4_Witness ==
    /\ Len(pnl_log) = 3
    /\ RLt(pnl_log[2], Zero)
    /\ pnl_log[3] = Zero
    /\ consecutive_losses = 0
    /\ daily_pnl # Zero

----------------------------------------------------------------------------
(* Properties of the Trader, checked under Spec *)

Filled == Some(OrderStatus.FILLED)
OpenIn(ps, m) ==
    { i \in DOMAIN ps : ps[i].model_id = m /\ ps[i].symbol = Symbol
                        /\ ps[i].closed_at = None }
ClosedIn(ps) == { i \in DOMAIN ps : ps[i].closed_at # None }
OrdersOf(rows, m) == SelectSeq(rows, LAMBDA r : r.model_id = m)

\* C2: when the risk check denies the order of a signal, execute_signal
\* records no order row, opens or closes no position and leaves daily_pnl and
\* consecutive_losses as they were.
C2_DenialHasNoSideEffects ==
    [][(check_result' # None /\ ~check_result'[1].allowed) =>
          /\ UNCHANGED <<orders, positions>>
          /\ UNCHANGED <<daily_pnl, consecutive_losses, pnl_log>>]_vars

\* a signal denied for the daily loss after orders were recorded and a position closed
C2_Witness ==
    /\ check_result # None
    /\ ~check_result[1].allowed
    /\ check_result[1].reason = ReasonDailyLoss
    /\ log = <<"Order rejected by risk manager">>
    /\ Len(orders) >= 2
    /\ ClosedIn(positions) # {}

\* C5: for every (model_id, symbol) at most one position has closed_at unset,
\* whatever sequence of signals has been executed.
C5_AtMostOneOpenPosition ==
    \A m \in ModelIds : Cardinality(OpenIn(positions, m)) <= 1

\* a second filled BUY of the same model while its position is open
C5_Witness ==
    \E m \in ModelIds :
        /\ Cardinality(OpenIn(positions, m)) = 1
        /\ Len(OrdersOf(orders, m)) >= 2
        /\ \A i \in DOMAIN OrdersOf(orders, m) :
               /\ OrdersOf(orders, m)[i].side = OrderSide.BUY
               /\ OrdersOf(orders, m)[i].status = Filled

\* C6: a filled SELL while a long position is open closes that position and
\* no other, feeds pnl = (SELL filled price - entry price) * filled quantity
\* to update_pnl in the same step (daily_pnl increased by it, loss streak set
\* from its sign), and when the model's orders are a BUY then a SELL starting
\* flat the model has exactly one position, which is closed.
C6_BuyThenSellClosesWithPnl ==
    [][Len(orders') = Len(orders) + 1 =>
        LET row == orders'[Len(orders')]
            m == row.model_id
            open == OpenIn(positions, m)
            mine == OrdersOf(orders', m)
        IN (row.side = OrderSide.SELL /\ row.status = Filled /\ open # {}) =>
             \E id \in open :
                LET pnl == RMul(RSub(row.filled_price[1], positions[id].entry_price),
                                row.filled_quantity[1])
                IN /\ Len(positions') = Len(positions)
                   /\ \A j \in DOMAIN positions :
                          j # id => positions'[j] = positions[j]
                   /\ positions'[id].closed_at # None
                   /\ [positions'[id] EXCEPT !.closed_at = None] = positions[id]
                   /\ daily_pnl' = RAdd(daily_pnl, pnl)
                   /\ consecutive_losses' =
                          IF RLt(pnl, Zero) THEN consecutive_losses + 1 ELSE 0
                   /\ pnl_log' = Append(pnl_log, pnl)
                   /\ (Len(mine) = 2 /\ mine[1].side = OrderSide.BUY) =>
                          /\ { i \in DOMAIN positions' : positions'[i].model_id = m } = {id}
                          /\ positions'[id].entry_price = mine[1].filled_price[1]]_vars

\* BUY at 100 then SELL at 200 of one model: one closed position, a gain
\* of (199.8 - 100.1) * 0.5 booked
C6_Witness ==
    /\ Len(orders) = 2
    /\ orders[1].model_id = orders[2].model_id
    /\ orders[1].side = OrderSide.BUY /\ orders[1].status = Filled
    /\ orders[2].side = OrderSide.SELL /\ orders[2].status = Filled
    /\ Len(positions) = 1
    /\ positions[1].closed_at # None
    /\ daily_pnl = Rat(997, 20)
    /\ pnl_log = <<Rat(997, 20)>>
    /\ consecutive_losses = 0

\* C7: a position row is created only by a filled BUY of a model with no
\* open position; an open row changes only by being closed on a filled SELL
\* of its model; a closed row never changes again; and RiskManager.update_pnl
\* runs once per close and at no other time.
C7_PositionClosedExactlyOnce ==
    [][LET row == orders'[Len(orders')]
           recorded == Len(orders') = Len(orders) + 1
       IN /\ Len(positions') >= Len(positions)
          /\ \A i \in DOMAIN positions :
                /\ positions[i].closed_at # None => positions'[i] = positions[i]
                /\ (positions[i].closed_at = None /\ positions'[i] # positions[i]) =>
                      /\ recorded
                      /\ row.side = OrderSide.SELL
                      /\ row.status = Filled
                      /\ row.model_id = positions[i].model_id
                      /\ positions'[i].closed_at # None
                      /\ [positions'[i] EXCEPT !.closed_at = None] = positions[i]
          /\ Len(positions') > Len(positions) =>
                /\ Len(positions') = Len(positions) + 1
                /\ recorded
                /\ row.side = OrderSide.BUY
                /\ row.status = Filled
                /\ OpenIn(positions, row.model_id) = {}
                /\ positions'[Len(positions')].model_id = row.model_id
                /\ positions'[Len(positions')].closed_at = None
          /\ Len(pnl_log') - Len(pnl_log) =
                Cardinality(ClosedIn(positions')) - Cardinality(ClosedIn(positions))
          /\ Len(pnl_log') = Cardinality(ClosedIn(positions'))]_vars

\* BUY, SELL, SELL of one model: the position closed by the first SELL is
\* met by a later filled SELL
C7_Witness ==
    /\ Len(orders) = 3
    /\ \A i \in 1..3 : orders[i].model_id = orders[1].model_id /\ orders[i].status = Filled
    /\ orders[1].side = OrderSide.BUY
    /\ orders[2].side = OrderSide.SELL
    /\ orders[3].side = OrderSide.SELL
    /\ Len(positions) = 1
    /\ positions[1].closed_at # None
    /\ Len(pnl_log) = 1

\* C8: in paper mode (every allowed order is filled) an allowed BUY of a
\* model that has an open position, and an allowed SELL of a model that has
\* none, leave positions and RiskState unchanged and append the order to the
\* orders table.
C8_NoOpFillStillRecorded ==
    [][(mode = TradingMode.PAPER /\ check_result' # None /\ check_result'[1].allowed) =>
        LET order == check_result'[1].order
            open == OpenIn(positions, order.model_id)
        IN ((order.side = OrderSide.BUY /\ open # {})
              \/ (order.side = OrderSide.SELL /\ open = {})) =>
             /\ positions' = positions
             /\ UNCHANGED <<daily_pnl, consecutive_losses, pnl_log>>
             /\ Len(orders') = Len(orders) + 1
             /\ SubSeq(orders', 1, Len(orders)) = orders
             /\ orders'[Len(orders')].model_id = order.model_id
             /\ orders'[Len(orders')].side = order.side
             /\ orders'[Len(orders')].quantity = order.quantity
             /\ orders'[Len(orders')].status = Filled]_vars

\* SELL while flat, BUY, BUY of one model: three order rows, one open position
C8_Witness ==
    /\ Len(orders) = 3
    /\ \A i \in 1..3 : orders[i].model_id = orders[1].model_id /\ orders[i].status = Filled
    /\ orders[1].side = OrderSide.SELL
    /\ orders[2].side = OrderSide.BUY
    /\ orders[3].side = OrderSide.BUY
    /\ Len(positions) = 1
    /\ positions[1].closed_at = None
    /\ positions[1].entry_price = orders[2].filled_price[1]
    /\ pnl_log = <<>>

\* C9: in shadow mode no position is ever opened or closed, daily_pnl and
\* consecutive_losses never change, no order row reports a fill, and an
\* allowed signal is logged as received but not executed.
C9_ShadowTouchesNothing ==
    mode = TradingMode.SHADOW =>
        /\ positions = <<>>
        /\ daily_pnl = Zero
        /\ consecutive_losses = 0
        /\ pnl_log = <<>>
        /\ \A i \in DOMAIN orders : orders[i].status # Filled
        /\ (check_result # None /\ check_result[1].allowed) =>
               log = <<"Shadow mode: signal received but not executed">>

\* an allowed SELL signal handled in shadow mode
C9_Witness ==
    /\ mode = TradingMode.SHADOW
    /\ check_result # None
    /\ check_result[1].allowed
    /\ check_result[1].order.side = OrderSide.SELL
    /\ log = <<"Shadow mode: signal received but not executed">>

\* C10: in live mode an execution that reports no fill is recorded as an
\* order with status REJECTED, and changes no position and no RiskState.
C10_LiveFailureRecordedRejected ==
    mode = TradingMode.LIVE =>
        /\ \A i \in DOMAIN orders : orders[i].status = Some(OrderStatus.REJECTED)
        /\ positions = <<>>
        /\ daily_pnl = Zero
        /\ consecutive_losses = 0

\* C11: PaperTrader.execute_order on a market order returns status FILLED,
\* filled_quantity = quantity, filled_price = price*(1+slippage) for a BUY and
\* price*(1-slippage) for a SELL, fee = filled_quantity*filled_price*fee_pct;
\* a BUY at 100 with slippage 0.001 is filled at 100.1.
C11_PaperFillPriceAndFee ==
    \A i \in DOMAIN orders :
        LET row == orders[i]
            factor == IF row.side = OrderSide.BUY
                      THEN RAdd(One, slippage_pct) ELSE RSub(One, slippage_pct)
        IN (row.mode = TradingMode.PAPER /\ row.order_type = OrderType.MARKET) =>
             /\ row.status = Filled
             /\ row.filled_quantity = Some(row.quantity)
             /\ row.filled_price = Some(RMul(row.price, factor))
             /\ row.fee = Some(RMul(RMul(row.filled_quantity[1], row.filled_price[1]), fee_pct))
             /\ (row.side = OrderSide.BUY /\ row.price = FromInt(100)
                   /\ slippage_pct = Rat(1, 1000)) =>
                    row.filled_price = Some(Rat(1001, 10))

\* a paper BUY at 100 filled at 100.1 and a paper SELL at 200 filled at 199.8
C11_Witness ==
    /\ mode = TradingMode.PAPER
    /\ \E i \in DOMAIN orders :
          /\ orders[i].side = OrderSide.BUY
          /\ orders[i].price = FromInt(100)
          /\ orders[i].filled_price = Some(Rat(1001, 10))
          /\ orders[i].fee = Some(Rat(1001, 10000))
    /\ \E i \in DOMAIN orders :
          /\ orders[i].side = OrderSide.SELL
          /\ orders[i].price = FromInt(200)
          /\ orders[i].filled_price = Some(Rat(999, 5))

----------------------------------------------------------------------------
(* Claims about the executor's rate limiter, under SpecEmit *)

\* the entries of stream:signals published at a time in [from, from + RateWindow)
PublishedInWindow(from) ==
    {i \in DOMAIN signals :
        signals[i].timestamp >= from /\ signals[i].timestamp < from + RateWindow}

\* the entries published during the RateWindow seconds that end at time now
PublishedSince(now) ==
    {i \in DOMAIN signals : signals[i].timestamp > now - RateWindow}

\* C12: in every interval of 60 seconds, wherever it starts, at most
\* max_signals_per_minute signals are published to stream:signals.
C12_RollingWindowLimit ==
    \A from \in 0..clock :
        Cardinality(PublishedInWindow(from)) <= max_signals_per_minute

\* C13: a signal generated when max_signals_per_minute signals were already
\* published within the last 60 seconds is an excess signal and is dropped:
\* the call publishes nothing.
C13_ExcessSignalDropped ==
    [][(emitted' = emitted + 1
          /\ Cardinality(PublishedSince(clock')) >= max_signals_per_minute)
         => signals' = signals]_vars

\* What the rate limiter does guarantee for C13: a call it refuses logs the
\* warning and its signal is never in the stream afterwards, and the stream
\* only grows by the signal of the call being made.
DroppedNeverPublished ==
    /\ \A i \in DOMAIN signals : signals[i].emit_no \notin dropped
    /\ \A i \in DOMAIN signals : signals[i].emit_no <= emitted
    /\ Len(signals) + Cardinality(dropped) = emitted

\* six signals within the window opened by the first one, limit 5: the
\* sixth is dropped with the warning
SixthSignalDropped ==
    /\ max_signals_per_minute = 5
    /\ emitted = 6
    /\ clock < RateWindow
    /\ dropped = {6}
    /\ Len(signals) = 5
    /\ log = <<"Signal rate limit exceeded">>

----------------------------------------------------------------------------
(* Claims about the services' loops and main(), under SpecService *)

\* C15: delivering to the Trader a signal it has already processed (the
\* loop reads the stream again) records no additional order, opens or
\* closes no position and leaves daily_pnl and consecutive_losses as they are.
C15_ConsumedOnce ==
    [][(service = "trader" /\ pc = "process" /\ batch[batch_pos] \in processed)
         => UNCHANGED <<orders, positions, daily_pnl, consecutive_losses>>]_vars

\* C16: a malformed signal fails only its own evaluation: when the loop
\* goes to sleep after a batch in which nothing but evaluations failed,
\* every well-formed signal of the batch has been executed.
C16_MalformedFailsAlone ==
    (service = "trader" /\ pc = "sleep" /\ failure \in {"none", "evaluation"})
      => \A k \in DOMAIN batch :
            ~Raises(signals[batch[k]].data) => batch[k] \in processed

\* C17: no error raised by the bus, the store or an evaluation ends a
\* consumption loop: the failing step goes to the 10 second backoff, the
\* sleep is followed by the next read, and the loop is left only by a
\* shutdown request or a cancellation.
C17_LoopSurvivesErrors ==
    [][(pc \in InLoop) =>
         ( /\ (failure' # "none" /\ failure' # failure) =>
                 (pc' = "sleep" /\ sleep_seconds' = ErrorBackoff)
           /\ (pc = "sleep" /\ pc' # pc) =>
                 (pc' = "read" \/ exit_path' \in {"shutdown", "cancelled"})
           /\ pc' \notin InLoop =>
                 (pc' = "cleanup" /\ exit_path' \in {"shutdown", "cancelled"}) )
      ]_vars

\* the loop reads again after the backoff that followed a failure, having
\* executed a signal before
C17_Witness ==
    /\ pc = "read"
    /\ sleep_seconds = ErrorBackoff
    /\ processed # {}
    /\ log = <<"Error in signal listener">>

----------------------------------------------------------------------------
(* Claims about progress, under the fair specifications *)

\* C14: every signal published to stream:signals is eventually processed
\* by the Trader, however many signals the stream already holds.
C14_EverySignalProcessed ==
    [](\A i \in 1..MaxBacklog : Len(signals) >= i => <>(i \in processed))

----------------------------------------------------------------------------
(* Claims about the signal generators, under SpecStrategy *)

\* the signal the EMA_RSI rule gives for the last bar of a frame
EmaRsiRule(df) ==
    LET n == Len(df)
    IN IF n < 2 THEN 0
       ELSE IF df[n].ema_9 > df[n].ema_21 /\ df[n - 1].ema_9 <= df[n - 1].ema_21
                 /\ NanLt(df[n].rsi_14, 30)
       THEN 1
       ELSE IF df[n].ema_9 < df[n].ema_21 /\ df[n - 1].ema_9 >= df[n - 1].ema_21
                 /\ NanGt(df[n].rsi_14, 70)
       THEN -1
       ELSE 0

\* C20: on a window of at least 22 bars the online generator returns BUY,
\* SELL or HOLD exactly by the EMA_RSI rule, and on every feature frame it
\* returns the last element of the offline generate_signals.
C20_OnlineEqualsOffline ==
    online_signal # None =>
        /\ Len(frame) >= MinBars => online_signal[1] = EmaRsiRule(frame)
        /\ online_signal[1] = offline_signals[1][Len(frame)]

\* What does hold for C20: on frames of at least 22 bars both generators
\* give the signal of the rule.
EqualFromMinBars ==
    (online_signal # None /\ Len(frame) >= MinBars) =>
        /\ online_signal[1] = EmaRsiRule(frame)
        /\ offline_signals[1][Len(frame)] = EmaRsiRule(frame)

\* a frame of 22 bars on which both generators say BUY
BuyAtMinBars ==
    /\ Len(frame) = MinBars
    /\ online_signal = Some(1)
    /\ offline_signals # None
    /\ offline_signals[1][MinBars] = 1

\* the signal the MACD_BB rule gives for the last bar of a frame
MacdBbRule(df) ==
    LET n == Len(df)
    IN IF n < 2 THEN 0
       ELSE IF df[n].macd > df[n].macd_signal
                 /\ df[n - 1].macd <= df[n - 1].macd_signal
                 /\ LtNan(df[n].close, df[n].bollinger_lower)
       THEN 1
       ELSE IF df[n].macd < df[n].macd_signal
                 /\ df[n - 1].macd >= df[n - 1].macd_signal
                 /\ GtNan(df[n].close, df[n].bollinger_upper)
       THEN -1
       ELSE 0

\* C21: on a window of at least 22 bars the online MACD_BB generator
\* returns BUY, SELL or HOLD exactly by the MACD_BB rule, and on every
\* feature frame it returns the last element of the offline generate_signals.
C21_MacdBbOnlineEqualsOffline ==
    online_signal # None =>
        /\ Len(frame) >= MinBars => online_signal[1] = MacdBbRule(frame)
        /\ online_signal[1] = offline_signals[1][Len(frame)]

\* What does hold for C21: on frames of at least 22 bars both MACD_BB
\* generators give the signal of the rule.
MacdBbEqualFromMinBars ==
    (online_signal # None /\ Len(frame) >= MinBars) =>
        /\ online_signal[1] = MacdBbRule(frame)
        /\ offline_signals[1][Len(frame)] = MacdBbRule(frame)

\* a frame of 22 bars on which both MACD_BB generators say SELL
MacdBbSellAtMinBars ==
    /\ Len(frame) = MinBars
    /\ online_signal = Some(-1)
    /\ offline_signals # None
    /\ offline_signals[1][MinBars] = -1

\* C22: no BUY or SELL is produced for a bar with fewer than 22 bars of
\* history up to and including it, online or offline.
C22_NoSignalBeforeMinBars ==
    online_signal # None =>
        /\ Len(frame) < MinBars => online_signal[1] = 0
        /\ \A i \in DOMAIN offline_signals[1] :
              i < MinBars => offline_signals[1][i] = 0

\* What does hold for C22: the online generator returns HOLD on every
\* window of fewer than 22 bars.
OnlineHoldBeforeMinBars ==
    (online_signal # None /\ Len(frame) < MinBars) => online_signal[1] = 0

\* C23: the strength of a signal is 1/2, plus 1/5 when rsi_14 strongly
\* confirms the direction (< 30 for BUY, > 70 for SELL), else plus 1/10
\* when it moderately confirms (< 40 for BUY, > 60 for SELL); an undefined
\* rsi_14 adds nothing; the result lies in [0, 1].
C23_SignalStrength ==
    signal_strength # None =>
        LET v == signal_strength[1].signal_value
            strength == signal_strength[1].strength
            rsi == frame[Len(frame)].rsi_14
            strong == rsi # None /\ IF v = 1 THEN rsi[1] < 30 ELSE rsi[1] > 70
            moderate == rsi # None /\ IF v = 1 THEN rsi[1] < 40 ELSE rsi[1] > 60
        IN /\ RGe(strength, Zero) /\ RLe(strength, One)
           /\ Len(frame) >= 2 =>
                strength = IF strong THEN Rat(7, 10)
                           ELSE IF moderate THEN Rat(6, 10)
                           ELSE Rat(1, 2)

\* a SELL whose rsi_14 of 70 confirms moderately has strength 3/5, on a
\* frame the generators accept
C23_Witness ==
    /\ signal_strength # None
    /\ Len(frame) >= MinBars
    /\ frame[Len(frame)].rsi_14 = Some(70)
    /\ signal_strength[1] = [signal_value |-> -1, strength |-> Rat(3, 5)]

----------------------------------------------------------------------------
(* Claims about the Backtester, under SpecBacktest and SpecSharpe *)

\* the trades alternate entry, exit, entry, ... and the position is
\* non-zero exactly when the last trade is an entry
TradesAlternate ==
    /\ \A i \in DOMAIN trades :
          trades[i].type = IF i % 2 = 1 THEN "entry" ELSE "exit"
    /\ bt_position # Zero <=>
          (trades # <<>> /\ trades[Len(trades)].type = "entry")

\* one bar of the backtest: a BUY when flat opens, a SELL when long closes,
\* anything else changes nothing
BarStep ==
    closes' # closes =>
        LET price == FromInt(closes'[Len(closes')])
            signal == signals_in'[Len(signals_in')]
            opened == /\ signal = 1
                      /\ bt_position = Zero
                      /\ bt_position' =
                            RDiv(RSub(capital, RMul(capital, FeePct)), price)
                      /\ capital' = capital
                      /\ Len(trades') = Len(trades) + 1
                      /\ trades'[Len(trades')].type = "entry"
            closed == /\ signal = -1
                      /\ bt_position # Zero
                      /\ capital' = RMul(RMul(bt_position, price),
                                         RSub(One, FeePct))
                      /\ bt_position' = Zero
                      /\ Len(trades') = Len(trades) + 1
                      /\ trades'[Len(trades')].type = "exit"
            nothing == /\ trades' = trades
                       /\ capital' = capital
                       /\ bt_position' = bt_position
        IN /\ opened \/ closed \/ nothing
           /\ (signal = 0 \/ (signal = 1 /\ bt_position # Zero)
                          \/ (signal = -1 /\ bt_position = Zero)) => nothing

\* C24: the Backtester is a flat/long machine: a BUY is accepted only when
\* flat and opens a position of (capital - capital * fee_pct) / price, a
\* SELL is accepted only when long and sets capital to position * price *
\* (1 - fee_pct) and the position to 0, any other signal changes nothing;
\* the trades alternate entry, exit, ... starting with an entry, and the
\* position is non-zero exactly when the last trade is an entry.
C24_FlatLongMachine == []TradesAlternate /\ [][BarStep]_vars

\* a second entry after a completed round trip
C24_Witness ==
    /\ Len(trades) = 3
    /\ trades[3].type = "entry"
    /\ bt_position # Zero
    /\ capital # FromInt(initial_capital)

\* the sum of capital after the exit minus capital before the entry, over
\* the exits of a list of trades
RECURSIVE RoundTripPnl(_, _)
RoundTripPnl(ts, i) ==
    IF i > Len(ts) THEN Zero
    ELSE RAdd(IF ts[i].type = "exit"
              THEN RSub(ts[i].capital, ts[i - 1].capital) ELSE Zero,
              RoundTripPnl(ts, i + 1))

\* C25: an entry left unmatched at the end is excluded from the metrics:
\* total_trades is the number of accepted SELLs, and the pnl of the round
\* trips is capital after the exit minus capital before the entry.
C25_TrailingEntryExcluded ==
    metrics # None =>
        /\ metrics[1].total_trades =
              Cardinality({i \in DOMAIN trades : trades[i].type = "exit"})
        /\ metrics[1].total_pnl_usdt = RoundTripPnl(trades, 1)

\* metrics of a backtest that ended long after a completed round trip
C25_Witness ==
    /\ metrics # None
    /\ Len(trades) = 3
    /\ trades[3].type = "entry"
    /\ metrics[1].total_trades = 1
    /\ metrics[1].total_pnl_usdt # Zero

\* C26: a backtest whose completed round trips are all winning reports a
\* defined, finite profit_factor that is the cap of the no-loss case: a
\* positive number, as the profit factor of every backtest with wins is.
C26_AllWinnersProfitFactor ==
    (metrics # None /\ metrics[1].total_trades > 0
                    /\ metrics[1].winning_trades = metrics[1].total_trades) =>
        RGt(metrics[1].profit_factor, Zero)

\* What does hold for C26: the profit_factor reported without a losing
\* round trip is the number 0, and no division by zero is attempted.
AllWinnersProfitFactorZero ==
    (metrics # None /\ metrics[1].total_trades > 0
                    /\ metrics[1].winning_trades = metrics[1].total_trades) =>
        metrics[1].profit_factor = Zero

\* a backtest of two winning round trips, of equal returns
TwoWinners ==
    /\ metrics # None
    /\ metrics[1].total_trades = 2
    /\ metrics[1].winning_trades = 2
    /\ metrics[1].sharpe_ratio = FZero

\* C27: the Sharpe ratio is exactly 0 whenever there are fewer than 2
\* returns or all the returns are equal.
C27_SharpeZero ==
    sharpe_ratio # None =>
        ((Len(returns[1]) < 2
          \/ \A i, j \in DOMAIN returns[1] : returns[1][i] = returns[1][j])
            => sharpe_ratio[1] = FZero)

\* What does hold for C27: the Sharpe ratio is 0.0 for fewer than 2
\* returns and for two equal returns, whose mean is exact.
SharpeZeroUpToTwo ==
    sharpe_ratio # None =>
        ((Len(returns[1]) < 2
          \/ (Len(returns[1]) = 2 /\ returns[1][1] = returns[1][2]))
            => sharpe_ratio[1] = FZero)

\* two equal returns
TwoEqualReturns ==
    /\ sharpe_ratio = Some(FZero)
    /\ returns # None
    /\ Len(returns[1]) = 2
    /\ returns[1][1] = returns[1][2]

\* What does hold for C27 in a backtest whose prices and fee are binary
\* fractions: equal returns of the round trips give a Sharpe ratio of 0.0.
BacktestSharpeZero ==
    LET exits == {i \in DOMAIN trades : trades[i].type = "exit"}
    IN (metrics # None
        /\ \A i, j \in exits :
              RDiv(trades[i].capital, trades[i - 1].capital)
              = RDiv(trades[j].capital, trades[j - 1].capital)) =>
           metrics[1].sharpe_ratio = FZero

\* the largest percentage drop of a close from the highest close before it
LargestDrop(cs) ==
    LET drops == {RMul(Rat(cs[i] - cs[j], cs[i]), FromInt(100)) :
                     <<i, j>> \in {p \in (DOMAIN cs) \X (DOMAIN cs) : p[1] <= p[2]}}
    IN IF cs = <<>> THEN Zero
       ELSE CHOOSE d \in drops : \A o \in drops : RGe(d, o)

\* C28: max_drawdown_pct depends only on the close prices: it is the
\* largest percentage drop of the close from its running peak, whatever
\* the signals, including signals that produce no trade.
C28_DrawdownOfPrices ==
    metrics # None => metrics[1].max_drawdown_pct = LargestDrop(closes)

\* What does hold for C28: with at least one completed round trip the
\* reported max_drawdown_pct is the largest drop of the close.
DrawdownWithRoundTrip ==
    (metrics # None /\ metrics[1].total_trades > 0) =>
        metrics[1].max_drawdown_pct = LargestDrop(closes)

\* a backtest with a round trip over bars whose close halves
DrawdownReported ==
    /\ metrics # None
    /\ metrics[1].total_trades > 0
    /\ metrics[1].max_drawdown_pct = FromInt(50)

----------------------------------------------------------------------------
(* Claims about the model generator, under SpecGeneration *)

\* the candidates of a run that satisfy the five criteria
Passing ==
    {i \in DOMAIN candidates[1].metrics :
        LET c == candidates[1].metrics[i]
            config == candidates[1].config
        IN /\ RGe(c.sharpe_ratio, config.min_sharpe_ratio)
           /\ RGe(c.win_rate, config.min_win_rate)
           /\ RGe(c.profit_factor, config.min_profit_factor)
           /\ RLe(RAbs(c.max_drawdown_pct), config.max_drawdown_pct)
           /\ c.total_trades > 0}

\* C29: a model is persisted only for a candidate that satisfies all five
\* criteria; it is the passing candidate of the highest Sharpe ratio, the
\* earlier one on a tie; at most one model is created per run and none
\* when no candidate passes.
C29_BestPassingCandidate ==
    candidates # None =>
        /\ Len(models) <= 1
        /\ Passing = {} => models = <<>>
        /\ models # <<>> =>
              \E i \in Passing :
                 /\ models[1].name = StrategyNames[i]
                 /\ models[1].performance = candidates[1].metrics[i]
                 /\ \A j \in Passing :
                       LET si == candidates[1].metrics[i].sharpe_ratio
                           sj == candidates[1].metrics[j].sharpe_ratio
                       IN RLe(sj, si) /\ (sj = si => i <= j)

\* both candidates pass with the same Sharpe ratio and the first is persisted
C29_Witness ==
    /\ candidates # None
    /\ Passing = {1, 2}
    /\ candidates[1].metrics[1].sharpe_ratio = candidates[1].metrics[2].sharpe_ratio
    /\ Len(models) = 1
    /\ models[1].name = StrategyNames[1]

----------------------------------------------------------------------------
(* Claims about the indicators, under SpecFeatures *)

\* C30: an indicator is undefined on every bar before its warm-up window
\* is full: ema_200 on the first 199 bars, ema_9 and ema_21 on the first 8
\* and 20 bars; and the feature snapshot of a signal carries null for each
\* such field.
C30_UndefinedBeforeWarmUp ==
    indicators # None =>
        /\ \A col \in DOMAIN EmaLengths : \A i \in DOMAIN candle_closes :
              i < EmaLengths[col] => indicators[1][col][i] = None
        /\ features # None =>
              \A col \in DOMAIN EmaLengths :
                 Len(candle_closes) < EmaLengths[col] => features[1][col] = None

\* What does hold for C30: the simple moving average is undefined exactly
\* before its window of 20 bars is full, in the columns and in the snapshot.
SmaUndefinedBeforeWarmUp ==
    indicators # None =>
        /\ \A i \in DOMAIN candle_closes :
              i < SmaLength <=> indicators[1].bollinger_middle[i] = None
        /\ features # None => features[1].bollinger_middle # None

\* What the exponential averages do: each is defined on every bar, and
\* equals the close on the first.
EmaDefinedFromFirstBar ==
    indicators # None =>
        \A col \in DOMAIN EmaLengths : \A i \in DOMAIN candle_closes :
           /\ indicators[1][col][i] # None
           /\ i = 1 => indicators[1][col][1] = Some(FromInt(candle_closes[1]))

\* the snapshot of a frame of 22 bars has a defined ema_200
SnapshotHasEma200 ==
    /\ features # None
    /\ Len(candle_closes) = MinBars
    /\ features[1].ema_200 # None
    /\ features[1].ema_200 # Some(FromInt(FillerClose))

\* C31: on every bar with at least 14 preceding price changes the rsi is
\* defined and lies in [0, 100], also when the average loss of the window
\* is zero (no down move, or a completely flat window).
C31_RsiDefinedInRange ==
    indicators # None =>
        \A i \in DOMAIN candle_closes :
           i > RsiLength =>
              /\ indicators[1].rsi_14[i] # None
              /\ RLe(Zero, indicators[1].rsi_14[i][1])
              /\ RLe(indicators[1].rsi_14[i][1], FromInt(100))

\* What does hold for C31: a defined rsi lies in [0, 100], a window with
\* an up move and no down move gives 100, and the rsi of a full window is
\* undefined exactly when the window is flat.
RsiInRangeWhenDefined ==
    indicators # None =>
        \A i \in DOMAIN candle_closes :
           LET value == indicators[1].rsi_14[i]
               window == (i - RsiLength + 1)..i
               up == \E j \in window : GainAt(candle_closes, j) > 0
               down == \E j \in window : LossAt(candle_closes, j) > 0
           IN /\ value # None =>
                    RLe(Zero, value[1]) /\ RLe(value[1], FromInt(100))
              /\ i >= RsiLength =>
                    /\ value = None <=> ~up /\ ~down
                    /\ up /\ ~down => value = Some(FromInt(100))

\* a window with a rise and no fall on a bar past the warm-up
RsiOfRisingWindow ==
    /\ indicators # None
    /\ Len(candle_closes) > RsiLength
    /\ candle_closes[Len(candle_closes)] > FillerClose
    /\ candle_closes[Len(candle_closes) - 1] = FillerClose
    /\ indicators[1].rsi_14[Len(candle_closes)] = Some(FromInt(100))

----------------------------------------------------------------------------
(* Claims about the executor's candle loop, under SpecService *)

\* the new-bar events of the executor's symbol on stream:candles
NewBars == {k \in DOMAIN candles : candles[k].symbol = Symbol}

\* this step is a call of process_candle for the new-bar event at stream
\* position k that returned
EvaluatesBar(k) ==
    /\ service = "executor"
    /\ pc = "process"
    /\ batch[batch_pos] = k
    /\ k \in NewBars
    /\ failure' = "none"
    /\ <<pc, batch_pos>>' # <<pc, batch_pos>>

\* C32: the executor evaluates the strategy once per new-bar event: a bar
\* that process_candle has evaluated is not evaluated again on a later
\* loop iteration, so the published signals never outnumber the bars.
C32_OneEvaluationPerBar ==
    /\ [](service = "executor" => Len(signals) <= Cardinality(NewBars))
    /\ [][\A k \in DOMAIN candles : EvaluatesBar(k) => k \notin processed]_vars

\* What the loop does: a single new-bar event, read again from '0' on the
\* next iteration, has been evaluated twice and has two published signals.
OneBarTwoSignals ==
    /\ service = "executor"
    /\ Cardinality(NewBars) = 1
    /\ Len(signals) = 2
    /\ processed = NewBars

----------------------------------------------------------------------------
(* Claims about the win statistics, under SpecBacktestNoFee *)

\* the exits of the trade list by the sign of capital after the exit
\* minus capital before the entry
WinningExits ==
    {i \in DOMAIN trades :
        trades[i].type = "exit" /\ RGt(trades[i].capital, trades[i - 1].capital)}

BreakEvenExits ==
    {i \in DOMAIN trades :
        trades[i].type = "exit" /\ trades[i].capital = trades[i - 1].capital}

LosingExits ==
    {i \in DOMAIN trades :
        trades[i].type = "exit" /\ RLt(trades[i].capital, trades[i - 1].capital)}

\* C33: in the metrics of a backtest with a completed round trip,
\* winning_trades + losing_trades = total_trades, winning_trades counts
\* the round trips with pnl > 0, win_rate = winning_trades / total_trades
\* lies in [0, 1], and a break-even round trip is among the losing trades.
C33_WinStatistics ==
    (metrics # None /\ metrics[1].total_trades >= 1) =>
        /\ metrics[1].winning_trades + metrics[1].losing_trades
              = metrics[1].total_trades
        /\ metrics[1].winning_trades = Cardinality(WinningExits)
        /\ metrics[1].losing_trades
              = Cardinality(LosingExits) + Cardinality(BreakEvenExits)
        /\ metrics[1].win_rate
              = Rat(metrics[1].winning_trades, metrics[1].total_trades)
        /\ RLe(Zero, metrics[1].win_rate)
        /\ RLe(metrics[1].win_rate, One)

\* metrics of a winning and a break-even round trip
C33_Witness ==
    /\ metrics # None
    /\ metrics[1].total_trades = 2
    /\ Cardinality(WinningExits) = 1
    /\ Cardinality(BreakEvenExits) = 1
    /\ metrics[1].win_rate = Rat(1, 2)

----------------------------------------------------------------------------
(* Claims about the risk lockout of the Trader service, under Spec *)

\* C34: in the Trader service consecutive_losses never exceeds
\* max_consecutive_losses: update_pnl is reached only through an order that
\* passed check_risk_limits, which denies once the counter equals the limit.
C34_StreakWithinLimit == consecutive_losses <= max_consecutive_losses

\* the counter has reached a limit of at least one loss and the next order
\* was denied for it
C34_Witness ==
    /\ max_consecutive_losses >= 1
    /\ consecutive_losses = max_consecutive_losses
    /\ check_result # None
    /\ ~check_result[1].allowed
    /\ check_result[1].reason = ReasonStreak

\* the risk lockout: the loss streak is at its limit or the daily loss
\* is beyond its limit
LockedOut ==
    \/ consecutive_losses >= max_consecutive_losses
    \/ RLt(daily_pnl, RNeg(max_daily_loss))

\* C35: the risk lockout of the Trader service is absorbing: once the loss
\* streak has reached its limit or the daily loss exceeds its limit, every
\* later BUY or SELL order is denied, RiskState never changes again (the
\* service never calls reset_daily), and an open position stays open.
C35_LockoutAbsorbing ==
    [][LockedOut =>
          /\ LockedOut'
          /\ UNCHANGED <<RiskState, Store>>
          /\ check_result' # None => ~check_result'[1].allowed
          /\ \A m \in ModelIds : OpenIn(positions, m) \subseteq OpenIn(positions', m)]_vars

\* locked out with a position open, and the SELL that would close it denied
C35_Witness ==
    /\ LockedOut
    /\ check_result # None
    /\ ~check_result[1].allowed
    /\ check_result[1].order.side = OrderSide.SELL
    /\ OpenIn(positions, check_result[1].order.model_id) # {}

\* the same with the daily loss as the only reason of the lockout
LockedOutByDailyLoss ==
    /\ C35_Witness
    /\ consecutive_losses < max_consecutive_losses
    /\ check_result[1].reason = ReasonDailyLoss

----------------------------------------------------------------------------
(* Claims about the close of a position, under Spec *)

\* this step closes the position row id
Closes(id) ==
    /\ id \in DOMAIN positions
    /\ positions[id].closed_at = None
    /\ positions'[id].closed_at # None

\* C36: when a position is closed, the quantity in the realized pnl fed to
\* update_pnl is the quantity of the position being closed (the quantity
\* bought at entry), whatever the entry and exit prices are.
C36_PnlOnPositionQuantity ==
    [][\A id \in DOMAIN positions :
          Closes(id) =>
             LET row == orders'[Len(orders')]
             IN /\ row.filled_quantity[1] = positions[id].quantity
                /\ pnl_log'[Len(pnl_log')] =
                      RMul(RSub(row.filled_price[1], positions[id].entry_price),
                           positions[id].quantity)]_vars

\* What does hold for C36: the two quantities agree when the SELL signal
\* carries the price of the BUY signal that opened the position.
SameQuantityAtSamePrice ==
    [][\A id \in DOMAIN positions :
          (/\ Closes(id)
           /\ RMul(orders'[Len(orders')].price, RAdd(One, slippage_pct))
                 = positions[id].entry_price) =>
             orders'[Len(orders')].filled_quantity[1] = positions[id].quantity]_vars

\* a position bought at 100 (quantity 1) closed by a SELL at 100
ClosedAtEntryPrice ==
    /\ Len(orders) = 2
    /\ Len(positions) = 1
    /\ positions[1].closed_at # None
    /\ orders[1].price = FromInt(100)
    /\ orders[2].price = FromInt(100)
    /\ orders[2].filled_quantity = Some(positions[1].quantity)

----------------------------------------------------------------------------
(* Claims about the order of effects, under SpecStoreFails *)

\* C37: the effects of one filled order occur in the order: order recorded,
\* position opened or closed in the store, RiskManager.update_pnl.  So
\* RiskState changes only in a step that has persisted a close, a position
\* changes only in a step that has recorded a filled order, and when
\* recording the order fails neither the positions nor RiskState change.
C37_OrderThenPositionThenRisk ==
    [][/\ RiskState' # RiskState =>
             \E id \in DOMAIN positions : Closes(id)
       /\ positions' # positions =>
             /\ Len(orders') = Len(orders) + 1
             /\ orders'[Len(orders')].status = Filled
       /\ orders' = orders => UNCHANGED <<positions, RiskState>>]_vars

\* the SELL of an open position was recorded as filled and the store then
\* failed in update_position: the position is still open and no pnl booked
C37_Witness ==
    /\ Len(orders) = 2
    /\ orders[1].side = OrderSide.BUY
    /\ orders[2].side = OrderSide.SELL
    /\ orders[2].status = Filled
    /\ orders[2].model_id = orders[1].model_id
    /\ OpenIn(positions, orders[2].model_id) # {}
    /\ pnl_log = <<>>
    /\ log = <<"Order saved", "Error in signal listener">>

----------------------------------------------------------------------------
(* Claims about the selection of a backtested strategy, under SpecSelection *)

\* the backtest completed a round trip and every round trip won
AllWinners ==
    /\ metrics # None
    /\ WinningExits # {}
    /\ BreakEvenExits = {}
    /\ LosingExits = {}

\* C38: a backtest whose completed round trips are all winners has
\* profit_factor 0, so it fails meets_criteria whenever min_profit_factor
\* is positive, whatever its other metrics: no model is persisted for it.
C38_AllWinnersNeverPersisted ==
    AllWinners =>
        /\ metrics[1].profit_factor = Zero
        /\ \A config \in ModelgenConfigs :
              RGt(config.min_profit_factor, Zero) =>
                 \A sharpe \in SharpeRatios(metrics[1]) :
                    ~MeetsCriteria(config,
                                   [metrics[1] EXCEPT !.sharpe_ratio = sharpe])
        /\ (candidates # None
               /\ RGt(candidates[1].config.min_profit_factor, Zero)) =>
              models = <<>>

\* an all-winning backtest without drawdown that was rejected under the
\* criteria whose only minimum is the profit factor
C38_Witness ==
    /\ AllWinners
    /\ metrics[1].max_drawdown_pct = Zero
    /\ candidates # None
    /\ candidates[1].config = ProfitFactorCriteria
    /\ models = <<>>

\* with min_profit_factor 0 the same backtest is persisted
AllWinnersPersistedWithoutMinimum ==
    /\ AllWinners
    /\ candidates # None
    /\ candidates[1].config = LaxCriteria
    /\ Len(models) = 1

\* C39: every row the generator persists has status 'approved' and no step
\* changes the status of a row; with no row written from outside the
\* services, the executor never holds a model and never leaves its
\* wait-for-model loop for the candle loop
C39_ApprovedModelNeverLoaded ==
    /\ [](/\ \A i \in DOMAIN models : models[i].status = "approved"
          /\ model = None
          /\ pc \notin InLoop)
    /\ [][\A i \in DOMAIN models : models'[i] = models[i]]_vars

\* a model has been persisted and the executor, having asked for the
\* active model, waits
C39_Witness ==
    /\ models # <<>>
    /\ active_model = None
    /\ pc = "wait_model"
    /\ sleep_seconds = PollInterval
    /\ model = None
    /\ log = <<"No active model found">>

\* the strategy tag of the loaded model's configuration is one of the two
\* generate_signal dispatches on
RecognisedStrategy ==
    DictGet(ModelConfig, "strategy") \in {Some("ema_rsi"), Some("macd_bb")}

\* C40: while the loaded model's configuration names no recognised
\* strategy, no signal is published, whatever the strategies' rules say
\* about the window
C40_NoStrategyNoSignal ==
    (model # None /\ ~RecognisedStrategy) =>
        /\ signals = <<>>
        /\ emitted = 0
        /\ dropped = {}

\* a bar of the traded symbol has been evaluated under a model whose
\* configuration text failed to parse
C40_Witness ==
    /\ model # None
    /\ model[1].config.isinstance = "str"
    /\ JsonLoads(model[1].config.text) = None
    /\ ModelConfig = {}
    /\ \E k \in processed : candles[k].symbol = Symbol
    /\ signals = <<>>

====
